---- MODULE Spec2Model ----
(***************************************************************************)
(* A model of the PixelAir device controller (libpixelair/device.py):      *)
(* registration with the UDP listener, snapshot application                *)
(* (_on_state_packet / _update_state_from_fb), the get_state wait-signal   *)
(* protocol and the control commands.  asyncio is single-threaded and      *)
(* cooperative: every action below is the code that runs between two       *)
(* suspension points (an await that really yields).  The two asyncio.Lock  *)
(* objects of the device are never held across a suspension point, so      *)
(* acquiring them never yields and the critical sections are atomic.       *)
(***************************************************************************)
EXTENDS Integers, Sequences, FiniteSets, TLC

VARIABLES
    ip_address,         \* PixelAirDevice._ip_address: where commands are sent
    listener_running,   \* UDPListener.is_running
    registered,         \* PixelAirDevice._registered
    handlers,           \* how many times self._handler is in the listener's handler list
    regpc,              \* position of each task that may call register()/unregister()
    state,              \* PixelAirDevice._state (DeviceState)
    routes,             \* PixelAirDevice._routes (ControlRoutes)
    state_events,       \* PixelAirDevice._state_events: the outstanding wait-signals, in order
    evset,              \* the wait-signals whose asyncio.Event is set
    gpc,                \* position of each get_state caller
    left,               \* time left before each caller's wait_for times out
    cmd,                \* the command task: idle, or suspended in send_to inside a command
                        \* (clean is history: no snapshot was processed since the call began)
    out,                \* the datagrams handed to the socket by the last step
    ev,                 \* the last step: operation, argument, outcome
    observed,           \* history: the routes carried for each property by the snapshots received
    latest,             \* history: the routes carried by the latest successfully applied snapshot
    applied_since,      \* history: callers for which a snapshot was applied since their signal was registered
    budget,             \* how many more operations (calls, arriving snapshots) may start
    rs,                 \* the resolve_ip task: idle, or suspended in the ARP lookup or in
                        \* discovery (before is history: the IP held when the call began;
                        \* broadcast is history: a call has taken the broadcast path)
    state_callbacks,    \* PixelAirDevice._state_callbacks: the subscribers, in subscription order
    notify,             \* the tasks running _on_state_packet: idle, or suspended in a callback
    poller,             \* the example DevicePoller: its fields and the position of its task
    now,                \* time.time()
    fx,                 \* a DeviceState whose effects property is read: model, scenes,
                        \* manual_animations, and the list the property returned
    norm,               \* a string given to normalize_mac, the result, and the result of
                        \* normalizing the result
    asm,                \* a PacketAssembler: its fragment groups (emitted, last and
                        \* arrivals are history)
    mux                 \* a listener with the handlers of two devices (last is history:
                        \* the latest datagram and the handlers it was offered to)

\* The device and its callers.
dvars == <<budget, rs, regpc, gpc, cmd, left, ip_address, listener_running, registered, handlers,
           state, routes, state_events, evset, out, observed, latest, applied_since, ev>>

\* The objects that are modelled on their own: a DeviceState, normalize_mac,
\* a PacketAssembler, a listener with two devices.
pvars == <<fx, norm, asm, mux>>

\* The subscribers of the device, the poller, and the objects modelled on their own.
aux == <<state_callbacks, notify, poller, now, pvars>>

vars == <<aux, dvars>>

-----------------------------------------------------------------------------
(* Bounds of the model. *)

MaxOps == 4
MaxTimeout == 1
MaxCycles == 11         \* how many times the poller may run _poll_once
MaxFragments == 4        \* how many fragments arrive at the assembler

(* Program constants. *)

DEVICE_COMMAND_PORT == 9090
DEVICE_CONTROL_PORT == 6767
AUTO == 0
SCENE == 1
MANUAL == 2

GET_STATE_ROUTE == "/getState"

(* Constants of the example poller. *)

POLL_INTERVAL == 1
MAX_FAILED_POLLS == 3
IP_RESOLVE_COOLDOWN == 300
MAX_BACKOFF == 60
REPLY_TIMEOUT == 2          \* wait_for(self._discovery_event.wait(), timeout=2.0)
VERIFY_TIMEOUT == 3         \* discovery.verify_device(new_ip, timeout=3.0)
FIND_TIMEOUT == 3           \* discovery.find_device_by_serial(..., timeout=3.0)
FETCH_TIMEOUT == 10         \* self._device.get_state(timeout=10.0)
DISCOVERY_ROUTE == "/discovery"

None == "None"

Callers == {"user", "poller"}
RegTasks == {"app", "ctx"}

IdentitySerial == "ac2f25"
OtherSerial == "xyz999"
IdentityMac == "d8:13:2a:25:2f:ac"
InitialIp == "192.168.1.50"
OtherIp == "192.168.1.77"
Ips == {InitialIp, OtherIp}
Serials == {IdentitySerial, OtherSerial}

Modes == {AUTO, SCENE, MANUAL}
ModeKey == [m \in Modes |-> IF m = AUTO THEN "auto" ELSE IF m = SCENE THEN "scene" ELSE "manual"]

EngineProps == {"is_displaying", "brightness", "mode", "active_scene_index",
                "manual_animation_index"}
PaletteProps == {"auto_hue", "auto_saturation", "scene_hue", "scene_saturation",
                 "manual_hue", "manual_saturation"}
Props == EngineProps \cup PaletteProps

-----------------------------------------------------------------------------
(* The decoded snapshot (the FlatBuffer object).  Every element of the     *)
(* engine is a table that may be absent; present, it carries a value and a *)
(* route string that may be absent.                                        *)

RouteString(ver, p) == "/" \o ver \o "/" \o p

Absent == [present |-> FALSE, value |-> 0, route |-> None]

Profile(n) ==
    IF n = 1
    THEN [is_displaying |-> 1, brightness |-> 500, mode |-> SCENE,
          active_scene_index |-> 1, manual_animation_index |-> 0,
          hue |-> 250, saturation |-> 750]
    ELSE [is_displaying |-> 0, brightness |-> 1000, mode |-> MANUAL,
          active_scene_index |-> 0, manual_animation_index |-> 3,
          hue |-> 0, saturation |-> 1000]

PropValue(prof, p) ==
    IF p \in EngineProps THEN Profile(prof)[p]
    ELSE IF p \in {"auto_hue", "scene_hue", "manual_hue"} THEN Profile(prof).hue
    ELSE Profile(prof).saturation

\* A snapshot with serial `serial`, routes of firmware `ver`, values of profile
\* `prof`; the elements in `drop` are absent, those in `omit` carry no route,
\* and `badmode` makes the mode value one that is no DeviceMode.
Snap(serial, ip, ver, prof, drop, omit, badmode) ==
    [decodable |-> TRUE,
     source |-> None,
     serial |-> serial,
     ip |-> ip,
     mac |-> IF ip = None THEN None ELSE IdentityMac,
     engine |-> drop # Props,
     el |-> [p \in Props |->
                IF p \in drop THEN Absent
                ELSE [present |-> TRUE,
                      value |-> IF p = "mode" /\ badmode THEN 3 ELSE PropValue(prof, p),
                      route |-> IF p \in omit THEN None ELSE RouteString(ver, p)]]]

Undecodable == [Snap(None, None, "A", 1, Props, {}, FALSE) EXCEPT !.decodable = FALSE]

SnapshotInputs ==
    { Snap(IdentitySerial, InitialIp, "A", 1, {}, {}, FALSE),
      Snap(IdentitySerial, InitialIp, "B", 2, {}, {}, FALSE),
      Snap(IdentitySerial, InitialIp, "B", 2, {},
           {"brightness", "active_scene_index", "scene_hue"}, FALSE),
      Snap(IdentitySerial, None, "B", 2, Props, {}, FALSE),
      Snap(IdentitySerial, InitialIp, "B", 2, {}, {}, TRUE),
      Snap(OtherSerial, OtherIp, "B", 2, {}, {}, FALSE),
      Undecodable }

-----------------------------------------------------------------------------
(* DeviceState and ControlRoutes as constructed by PixelAirDevice.__init__ *)

InitState ==
    [serial_number |-> IdentitySerial,
     ip_address |-> InitialIp,
     mac_address |-> IdentityMac,
     is_on |-> FALSE,
     brightness |-> 0,
     mode |-> SCENE,
     active_scene_index |-> 0,
     active_manual_animation_index |-> 0,
     palette |-> [k \in {"auto", "scene", "manual"} |-> [hue |-> 0, saturation |-> 0]]]

InitRoutes == [p \in Props |-> None]

-----------------------------------------------------------------------------
(* _update_state_from_fb *)

SetValue(st, p, v) ==
    CASE p = "is_displaying" -> [st EXCEPT !.is_on = (v # 0)]
      [] p = "brightness" -> [st EXCEPT !.brightness = v]
      [] p = "mode" -> [st EXCEPT !.mode = v]
      [] p = "active_scene_index" -> [st EXCEPT !.active_scene_index = v]
      [] p = "manual_animation_index" -> [st EXCEPT !.active_manual_animation_index = v]
      [] p = "auto_hue" -> [st EXCEPT !.palette["auto"].hue = v]
      [] p = "auto_saturation" -> [st EXCEPT !.palette["auto"].saturation = v]
      [] p = "scene_hue" -> [st EXCEPT !.palette["scene"].hue = v]
      [] p = "scene_saturation" -> [st EXCEPT !.palette["scene"].saturation = v]
      [] p = "manual_hue" -> [st EXCEPT !.palette["manual"].hue = v]
      [] p = "manual_saturation" -> [st EXCEPT !.palette["manual"].saturation = v]

\* `if x.Route(): self._routes.<p> = x.Route().decode("utf-8")`
ExtractRoute(rt, p, route) == IF route # None THEN [rt EXCEPT ![p] = route] ELSE rt

\* One element of the engine: its value always, its route when it carries one.
\* sr is the pair of state and routes being updated.
ExtractElement(sr, fb, p) ==
    IF fb.el[p].present
    THEN [sr EXCEPT !.state = SetValue(sr.state, p, fb.el[p].value),
                    !.routes = ExtractRoute(sr.routes, p, fb.el[p].route)]
    ELSE sr

\* _extract_palette(palette_fb, palette_state, palette_routes) for the palette of mode key k.
ExtractPalette(sr, fb, k) ==
    ExtractElement(ExtractElement(sr, fb, k \o "_hue"), fb, k \o "_saturation")

\* The basic and network fields: each is overwritten when the snapshot carries it.
UpdateBasicInfo(st, fb) ==
    [st EXCEPT !.serial_number = IF fb.serial # None THEN fb.serial ELSE @,
               !.ip_address = IF fb.ip # None THEN fb.ip ELSE @,
               !.mac_address = IF fb.mac # None THEN fb.mac ELSE @]

\* The whole of _update_state_from_fb.  ok = FALSE when DeviceMode(mode.Value())
\* raises: what was assigned before the raise stays assigned.
UpdateStateFromFb(st, rt, fb) ==
    LET s0 == [state |-> UpdateBasicInfo(st, fb), routes |-> rt, ok |-> TRUE]
        e1 == ExtractElement(s0, fb, "is_displaying")
        e2 == ExtractElement(e1, fb, "brightness")
        e3 == ExtractElement(e2, fb, "mode")
        e4 == ExtractElement(e3, fb, "active_scene_index")
        e5 == ExtractElement(e4, fb, "manual_animation_index")
        e6 == ExtractPalette(e5, fb, "manual")
        e7 == ExtractPalette(e6, fb, "auto")
        e8 == ExtractPalette(e7, fb, "scene")
    IN  IF ~fb.engine THEN s0
        ELSE IF fb.el["mode"].present /\ fb.el["mode"].value \notin Modes
             THEN [e2 EXCEPT !.ok = FALSE]
             ELSE e8

Range(s) == {s[i] : i \in DOMAIN s}

Remove(s, x) == SelectSeq(s, LAMBDA y : y # x)

CarriedRoutes(fb) == [p \in Props |-> IF fb.el[p].present THEN fb.el[p].route ELSE None]

-----------------------------------------------------------------------------
Ev(op, arg, err) == [op |-> op, arg |-> arg, err |-> err]

NoCmd == [pc |-> "idle", op |-> None, arg |-> None, clean |-> TRUE]

\* The poller's counter before the first reply: `self._state_counter = None`.
NoCounter == -1

\* The values of state_counter in the replies to the poller's probes.
Counters == {7, 8}

\* time.time() when the program starts: seconds since 1970, positive.
Epoch == 1

\* DevicePoller.__init__ as main() calls it: MAC and serial known, no IP yet.
\* pc, ret, new_ip are the position of the poller's task and its locals;
\* cycles, step, sent, reply, fetched are history: the polls begun, what the
\* last step did, the datagrams it handed to the socket, the counter it
\* received, the counter recorded when the latest get_state that returned a
\* state was issued.
NewPoller ==
    [pc |-> "new", ret |-> None, new_ip |-> None,
     running |-> FALSE,
     ip_address |-> None,
     device |-> None,
     state_counter |-> NoCounter,
     consecutive_failures |-> 0,
     last_ip_resolve_time |-> 0,
     current_backoff |-> POLL_INTERVAL,
     cycles |-> 0, step |-> {}, sent |-> <<>>, reply |-> NoCounter,
     fetched |-> NoCounter]

\* The tasks on which the assembler runs _on_state_packet.
NotifyTasks == {"n1", "n2"}

\* A task that is not inside _on_state_packet.  index is the position of the
\* `for callback in self._state_callbacks` loop, running the coroutine
\* callbacks that were started and have not finished; start, log, raised,
\* overlap, clean and trace are history of the task's latest notification, kept
\* until the subscriptions change: the subscribers when it started, the
\* callbacks invoked, whether a coroutine
\* callback raised, whether a callback was invoked while another was running,
\* whether the subscriptions stayed as they were while it ran, what the last
\* step did in order.
NoNotify ==
    [pc |-> "idle", index |-> 0, start |-> <<>>, running |-> {}, log |-> <<>>,
     raised |-> FALSE, overlap |-> FALSE, clean |-> TRUE, trace |-> <<>>]

\* A DeviceState as the dataclass creates it; its effects were not read yet.
NoFx ==
    [model |-> <<>>, scenes |-> <<>>, manual_animations |-> <<>>,
     effects |-> <<>>, read |-> FALSE]

\* Nothing was given to normalize_mac yet.
NoNorm == [input |-> <<>>, result |-> <<>>, again |-> <<>>, err |-> "ok", applied |-> 0]

\* The keys of the assembler's fragment groups: (source, group id).
GroupIds == {17, 18}
Keys == {<<InitialIp, 17>>, <<InitialIp, 18>>, <<OtherIp, 17>>}

\* No fragment group is buffered under a key.
NoGroup == [total |-> 0, got |-> {}, born |-> 0]

\* A fragment: the header's total_fragments and fragment_index, and the bytes
\* after the header.
Fragment(total, index, payload) == [total |-> total, index |-> index, payload |-> payload]
NoFragment == Fragment(0, 0, <<>>)

\* What the assembler did with the latest fragment.
Outcome(key, f, what) == [key |-> key, fragment |-> f, what |-> what]

\* A PacketAssembler that has received nothing.
NoAsm ==
    [groups |-> [k \in Keys |-> NoGroup], emitted |-> <<>>, arrivals |-> 0,
     last |-> Outcome(<<InitialIp, 17>>, NoFragment, "none")]

\* Two devices on one listener.
Devices == {"d1", "d2"}

\* A running listener without handlers, the two devices at different IPs.
NoMux ==
    [handlers |-> <<>>,
     ip |-> [d \in Devices |-> IF d = "d1" THEN InitialIp ELSE OtherIp],
     last |-> [source |-> InitialIp, data |-> <<>>, offered |-> <<>>, fed |-> <<>>]]

\* The state after construction of the device, its listener and the poller.
Created ==
    /\ state_callbacks = <<>>
    /\ notify = [t \in NotifyTasks |-> NoNotify]
    /\ poller = NewPoller
    /\ now = Epoch
    /\ ip_address = InitialIp
    /\ rs = [pc |-> "idle", before |-> InitialIp, broadcast |-> FALSE]
    /\ listener_running = TRUE
    /\ registered = FALSE
    /\ handlers = 0
    /\ regpc = [t \in RegTasks |-> "idle"]
    /\ state = InitState
    /\ routes = InitRoutes
    /\ state_events = <<>>
    /\ evset = {}
    /\ gpc = [c \in Callers |-> "idle"]
    /\ left = [c \in Callers |-> 0]
    /\ cmd = NoCmd
    /\ out = <<>>
    /\ ev = Ev("init", None, "ok")
    /\ observed = [p \in Props |-> {}]
    /\ latest = [applied |-> FALSE, routes |-> InitRoutes]
    /\ applied_since = {}
    /\ budget = MaxOps

Init ==
    /\ Created
    /\ fx = NoFx
    /\ norm = NoNorm
    /\ asm = NoAsm
    /\ mux = NoMux

-----------------------------------------------------------------------------
(* The listener: running when the device is created, stopped at most once. *)

ListenerStop ==
    /\ listener_running
    /\ budget > 0
    /\ budget' = budget - 1
    /\ listener_running' = FALSE
    /\ out' = <<>>
    /\ ev' = Ev("listener_stop", None, "ok")
    /\ UNCHANGED <<rs, ip_address, registered, handlers, regpc, state, routes, state_events, evset,
                   gpc, left, cmd, observed, latest, applied_since>>
    /\ UNCHANGED aux

-----------------------------------------------------------------------------
(* register / unregister *)

\* UDPListener.add_handler / remove_handler on the ordered handler collection.
AddHandler(n) == n + 1
RemoveHandler(n) == IF n > 0 THEN n - 1 ELSE 0

\* A faulty variant of RegisterGuard: registering twice is allowed.
RegisterGuardMissing(reg, running) == IF ~running THEN "ListenerNotRunning" ELSE "ok"

\* The two guards of register().
RegisterGuard(reg, running) ==
    IF reg THEN "AlreadyRegistered"
    ELSE IF ~running THEN "ListenerNotRunning"
    ELSE "ok"

\* register() up to `await self._assembler.start()`.
RegisterCall(t) ==
    /\ regpc[t] = "idle"
    /\ budget > 0
    /\ budget' = budget - 1
    /\ out' = <<>>
    /\ IF RegisterGuard(registered, listener_running) # "ok"
       THEN /\ ev' = Ev("register", t, RegisterGuard(registered, listener_running))
            /\ UNCHANGED regpc
       ELSE /\ ev' = Ev("register", t, "pending")
            /\ regpc' = [regpc EXCEPT ![t] = "starting"]
    /\ UNCHANGED <<rs, ip_address, listener_running, registered, handlers, state, routes, state_events,
                   evset, gpc, left, cmd, observed, latest, applied_since>>
    /\ UNCHANGED aux

\* register() after the assembler has started.
RegisterFinish(t) ==
    /\ regpc[t] = "starting"
    /\ handlers' = AddHandler(handlers)
    /\ registered' = TRUE
    /\ regpc' = [regpc EXCEPT ![t] = "idle"]
    /\ out' = <<>>
    /\ ev' = Ev("register", t, "ok")
    /\ UNCHANGED <<rs, ip_address, listener_running, state, routes, state_events, evset, gpc, left, cmd,
                   observed, latest, applied_since, budget>>
    /\ UNCHANGED aux

\* unregister() up to `await self._assembler.stop()`.
UnregisterCall(t) ==
    /\ regpc[t] = "idle"
    /\ budget > 0
    /\ budget' = budget - 1
    /\ out' = <<>>
    /\ IF ~registered
       THEN /\ ev' = Ev("unregister", t, "noop")
            /\ UNCHANGED <<handlers, regpc>>
       ELSE /\ handlers' = RemoveHandler(handlers)
            /\ regpc' = [regpc EXCEPT ![t] = "stopping"]
            /\ ev' = Ev("unregister", t, "pending")
    /\ UNCHANGED <<rs, ip_address, listener_running, registered, state, routes, state_events, evset,
                   gpc, left, cmd, observed, latest, applied_since>>
    /\ UNCHANGED aux

\* unregister() after the assembler has stopped.
UnregisterFinish(t) ==
    /\ regpc[t] = "stopping"
    /\ registered' = FALSE
    /\ regpc' = [regpc EXCEPT ![t] = "idle"]
    /\ out' = <<>>
    /\ ev' = Ev("unregister", t, "ok")
    /\ UNCHANGED <<rs, ip_address, listener_running, handlers, state, routes, state_events, evset, gpc,
                   left, cmd, observed, latest, applied_since, budget>>
    /\ UNCHANGED aux

-----------------------------------------------------------------------------
(* _on_state_packet *)

\* A faulty variant of NotifyWaiters: only the oldest wait-signal is set.
NotifyFirstWaiter(events, set) == IF events = <<>> THEN set ELSE set \cup {Head(events)}

\* `for event in self._state_events: event.set()`
NotifyWaiters(events, set) == set \cup Range(events)

\* The handler claims fragments only while it is in the listener's handler list
\* and the receive loop runs; the assembler hands over the reassembled payload.
OnStatePacket(fb) ==
    /\ budget > 0
    /\ listener_running
    /\ handlers > 0
    /\ budget' = budget - 1
    /\ out' = <<>>
    /\ IF ~fb.decodable
       THEN /\ ev' = Ev("snapshot", fb, "DecodeError")
            /\ UNCHANGED <<state, routes, evset, observed, latest, applied_since>>
       ELSE LET u == UpdateStateFromFb(state, routes, fb) IN
            /\ state' = u.state
            /\ routes' = u.routes
            /\ observed' = [p \in Props |->
                              observed[p] \cup ({CarriedRoutes(fb)[p]} \ {None})]
            /\ IF u.ok
               THEN /\ evset' = NotifyWaiters(state_events, evset)
                    /\ latest' = [applied |-> TRUE, routes |-> CarriedRoutes(fb)]
                    /\ applied_since' = applied_since \cup {c \in Callers : gpc[c] # "idle"}
                    /\ ev' = Ev("snapshot", fb, "ok")
               ELSE /\ ev' = Ev("snapshot", fb, "ProcessingError")
                    /\ UNCHANGED <<evset, latest, applied_since>>
    /\ cmd' = IF cmd.pc # "idle" /\ fb.decodable THEN [cmd EXCEPT !.clean = FALSE] ELSE cmd
    /\ UNCHANGED <<rs, ip_address, listener_running, registered, handlers, regpc, state_events, gpc,
                   left>>

\* A faulty variant of ClaimsPacket: the handler stays bound to the IP the
\* device was created with.
ClaimsPacketFirstIp(source_ip, device_ip) == source_ip = InitialIp

\* `if source_ip != self._device.ip_address: return False`
ClaimsPacket(source_ip, device_ip) == source_ip = device_ip

\* DevicePacketHandler.handle_packet for the fragments of one snapshot arriving
\* from source_ip: claimed and handed to the assembler, which calls
\* _on_state_packet with the payload, or left to the other handlers.  The
\* source field of the snapshot is history: the address the fragments came from.
HandlePacket(source_ip, fb) ==
    /\ IF ClaimsPacket(source_ip, ip_address)
       THEN OnStatePacket([fb EXCEPT !.source = source_ip])
       ELSE /\ budget > 0
            /\ listener_running
            /\ handlers > 0
            /\ budget' = budget - 1
            /\ out' = <<>>
            /\ ev' = Ev("packet", source_ip, "NotClaimed")
            /\ UNCHANGED <<rs, ip_address, listener_running, registered, handlers, regpc, state,
                           routes, state_events, evset, gpc, left, cmd, observed, latest,
                           applied_since>>
    /\ UNCHANGED aux

-----------------------------------------------------------------------------
(* _send_command and UDPListener.send_to *)

IntParam(v) == [type |-> "i", value |-> v]
FloatParam(v) == [type |-> "f", value |-> v]

\* A datagram handed to the socket.  prop is history: the property the sender
\* meant to address (None for /getState); it is not on the wire.
Datagram(route, params, ip, port, prop) ==
    [route |-> route, params |-> params, ip |-> ip, port |-> port, prop |-> prop]

\* A faulty variant of SendCommand: the port argument is ignored and the
\* default port is used.
SendCommandDefaultPort(route, params, port, prop, fail) ==
    IF ~listener_running THEN [err |-> "ListenerNotRunning", out |-> <<>>]
    ELSE IF fail THEN [err |-> "SendError", out |-> <<>>]
    ELSE [err |-> "ok",
          out |-> <<Datagram(route, params, ip_address, DEVICE_COMMAND_PORT, prop)>>]

\* _send_command(route, params, port): the error it raises, or "ok" and the
\* datagram handed to the socket.  `fail` is send_to raising on a socket error.
SendCommand(route, params, port, prop, fail) ==
    IF ~listener_running THEN [err |-> "ListenerNotRunning", out |-> <<>>]
    ELSE IF fail THEN [err |-> "SendError", out |-> <<>>]
    ELSE [err |-> "ok", out |-> <<Datagram(route, params, ip_address, port, prop)>>]

\* A faulty variant of RegisteredCheck: the call runs unregistered.
RegisteredCheckSkipped(reg) == "ok"

\* `if not self._registered: raise RuntimeError("Device is not registered")`
RegisteredCheck(reg) == IF reg THEN "ok" ELSE "NotRegistered"

-----------------------------------------------------------------------------
(* get_state *)

\* A faulty variant of WaitExpired: the wait has no deadline.
WaitNeverExpires(l) == FALSE

\* asyncio.wait_for(event.wait(), timeout): the timeout has elapsed.
WaitExpired(l) == l = 0

\* A faulty variant of ReleaseEvent: the wait-signal stays in the list.
ReleaseEventLeaking(events, c) == events

\* The finally block of get_state: the wait-signal leaves the list.
ReleaseEvent(events, c) == Remove(events, c)

\* get_state(timeout) up to the await of send_to: the registration check, the
\* wait-signal appended, the /getState command handed to the socket.  When
\* _send_command raises, the finally block runs at once.
GetStateCall(c, timeout, fail) ==
    /\ gpc[c] = "idle"
    /\ budget > 0
    /\ budget' = budget - 1
    /\ IF RegisteredCheck(registered) # "ok"
       THEN /\ ev' = Ev("get_state", c, RegisteredCheck(registered))
            /\ out' = <<>>
            /\ UNCHANGED <<state_events, gpc, left>>
       ELSE LET s == SendCommand(GET_STATE_ROUTE, <<>>, DEVICE_COMMAND_PORT, None, fail) IN
            /\ out' = s.out
            /\ IF s.err # "ok"
               THEN /\ ev' = Ev("get_state", c, s.err)
                    /\ state_events' = ReleaseEvent(Append(state_events, c), c)
                    /\ UNCHANGED <<gpc, left>>
               ELSE /\ ev' = Ev("get_state", c, "pending")
                    /\ state_events' = Append(state_events, c)
                    /\ gpc' = [gpc EXCEPT ![c] = "send"]
                    /\ left' = [left EXCEPT ![c] = timeout]
    /\ UNCHANGED <<rs, ip_address, listener_running, registered, handlers, regpc, state,
                   routes, evset, cmd, observed, latest, applied_since>>
    /\ UNCHANGED aux

\* send_to returns: wait_for(event.wait(), timeout) starts.
GetStateWait(c) ==
    /\ gpc[c] = "send"
    /\ gpc' = [gpc EXCEPT ![c] = "wait"]
    /\ out' = <<>>
    /\ ev' = Ev("get_state", c, "waiting")
    /\ UNCHANGED <<rs, ip_address, listener_running, registered, handlers, regpc, state,
                   routes, state_events, evset, left, cmd, observed, latest,
                   applied_since, budget>>
    /\ UNCHANGED aux

\* The event is set: wait_for returns, get_state returns self.state.
GetStateReturn(c) ==
    /\ gpc[c] = "wait"
    /\ c \in evset
    /\ state_events' = ReleaseEvent(state_events, c)
    /\ gpc' = [gpc EXCEPT ![c] = "idle"]
    /\ evset' = evset \ {c}
    /\ left' = [left EXCEPT ![c] = 0]
    /\ applied_since' = applied_since \ {c}
    /\ out' = <<>>
    /\ ev' = Ev("get_state", c, "ok")
    /\ UNCHANGED <<rs, ip_address, listener_running, registered, handlers, regpc, state,
                   routes, cmd, observed, latest, budget>>
    /\ UNCHANGED aux

\* The timeout elapses with the event not set: asyncio.TimeoutError.
GetStateTimeout(c) ==
    /\ gpc[c] = "wait"
    /\ c \notin evset
    /\ WaitExpired(left[c])
    /\ state_events' = ReleaseEvent(state_events, c)
    /\ gpc' = [gpc EXCEPT ![c] = "idle"]
    /\ applied_since' = applied_since \ {c}
    /\ out' = <<>>
    /\ ev' = Ev("get_state", c, "Timeout")
    /\ UNCHANGED <<rs, ip_address, listener_running, registered, handlers, regpc, state,
                   routes, evset, left, cmd, observed, latest, budget>>
    /\ UNCHANGED aux

\* The caller's task is cancelled while suspended in send_to or in wait_for.
GetStateCancel(c) ==
    /\ gpc[c] \in {"send", "wait"}
    /\ state_events' = ReleaseEvent(state_events, c)
    /\ gpc' = [gpc EXCEPT ![c] = "idle"]
    /\ evset' = evset \ {c}
    /\ left' = [left EXCEPT ![c] = 0]
    /\ applied_since' = applied_since \ {c}
    /\ out' = <<>>
    /\ ev' = Ev("get_state", c, "Cancelled")
    /\ UNCHANGED <<rs, ip_address, listener_running, registered, handlers, regpc, state,
                   routes, cmd, observed, latest, budget>>
    /\ UNCHANGED aux

\* Time passes for the callers suspended in wait_for.  A caller whose event is
\* set, or whose timeout has elapsed, runs before more time passes.
Tick ==
    /\ \E c \in Callers : gpc[c] = "wait"
    /\ \A c \in Callers : gpc[c] = "wait" => (c \notin evset /\ left[c] > 0)
    /\ left' = [c \in Callers |-> IF gpc[c] = "wait" THEN left[c] - 1 ELSE left[c]]
    /\ out' = <<>>
    /\ ev' = Ev("tick", None, "ok")
    /\ UNCHANGED <<rs, ip_address, listener_running, registered, handlers, regpc, state,
                   routes, state_events, evset, gpc, cmd, observed, latest,
                   applied_since, budget>>
    /\ UNCHANGED aux

-----------------------------------------------------------------------------
(* The control commands.  Values in [0, 1] are counted in thousandths.     *)

BrightnessInputs == {-1, 0, 125, 1000, 1001}
PaletteInputs == {-1, 500, 1001}

InRange(x) == 0 <= x /\ x <= 1000

\* The thousandths ending in 5 whose binary float lies above the decimal, or
\* that are exact ties resolved upwards to an even hundredth: round(x, 2)
\* rounds these up and every other one ending in 5 down.
RoundsUp == {5, 25, 35, 55, 65, 85, 95, 115, 135, 165, 195, 225, 255, 265, 275, 315,
             325, 335, 375, 385, 395, 405, 445, 455, 465, 505, 515, 525, 535, 545,
             555, 635, 645, 655, 665, 675, 685, 755, 765, 775, 785, 795, 805, 875,
             885, 895, 905, 915, 925, 935}

\* A faulty variant of Round2: the value is sent and stored as given.
Round2Missing(x) == x

\* round(x, 2) for x in [0, 1]
Round2(x) ==
    LET q == x \div 10
        r == x % 10
    IN  IF r < 5 THEN 10 * q
        ELSE IF r > 5 THEN 10 * (q + 1)
        ELSE IF x \in RoundsUp THEN 10 * (q + 1) ELSE 10 * q

\* Effect ids are strings, here sequences of characters.
EffectAuto == <<"a", "u", "t", "o">>
ScenePrefix == <<"s", "c", "e", "n", "e", ":">>
ManualPrefix == <<"m", "a", "n", "u", "a", "l", ":">>

EffectInputs ==
    { EffectAuto,
      ScenePrefix \o <<"1">>,
      ManualPrefix \o <<"3">>,
      ScenePrefix \o <<"0", "1">>,
      ScenePrefix \o <<"x">>,
      ManualPrefix,
      <<"o", "f", "f">> }

StartsWith(s, prefix) ==
    /\ Len(s) >= Len(prefix)
    /\ SubSeq(s, 1, Len(prefix)) = prefix

Digits == <<"0", "1", "2", "3", "4", "5", "6", "7", "8", "9">>
IsDigit(ch) == \E i \in 1..10 : Digits[i] = ch
DigitValue(ch) == (CHOOSE i \in 1..10 : Digits[i] = ch) - 1

RECURSIVE DecimalValue(_)
DecimalValue(s) ==
    IF s = <<>> THEN 0
    ELSE 10 * DecimalValue(SubSeq(s, 1, Len(s) - 1)) + DigitValue(s[Len(s)])

\* int(text): an optional sign and at least one digit, or ValueError.
ParseInt(s) ==
    LET signed == s # <<>> /\ s[1] \in {"-", "+"}
        body == IF signed THEN Tail(s) ELSE s
    IN  IF body # <<>> /\ \A i \in DOMAIN body : IsDigit(body[i])
        THEN [ok |-> TRUE,
              value |-> IF signed /\ s[1] = "-" THEN 0 - DecimalValue(body)
                        ELSE DecimalValue(body)]
        ELSE [ok |-> FALSE, value |-> 0]

\* A faulty variant of ParseEffect: an id with a known prefix and no integer
\* after it selects index 0.
ParseEffectLenient(e) ==
    IF e = EffectAuto THEN [kind |-> "auto", index |-> 0]
    ELSE IF StartsWith(e, ScenePrefix)
    THEN [kind |-> "scene", index |-> ParseInt(SubSeq(e, 7, Len(e))).value]
    ELSE IF StartsWith(e, ManualPrefix)
    THEN [kind |-> "manual", index |-> ParseInt(SubSeq(e, 8, Len(e))).value]
    ELSE [kind |-> "unknown", index |-> 0]

\* What set_effect makes of an effect id: the kind of effect and its index.
ParseEffect(e) ==
    IF e = EffectAuto THEN [kind |-> "auto", index |-> 0]
    ELSE IF StartsWith(e, ScenePrefix)
    THEN LET n == ParseInt(SubSeq(e, 7, Len(e))) IN
         IF n.ok THEN [kind |-> "scene", index |-> n.value]
         ELSE [kind |-> "unknown", index |-> 0]
    ELSE IF StartsWith(e, ManualPrefix)
    THEN LET n == ParseInt(SubSeq(e, 8, Len(e))) IN
         IF n.ok THEN [kind |-> "manual", index |-> n.value]
         ELSE [kind |-> "unknown", index |-> 0]
    ELSE [kind |-> "unknown", index |-> 0]

\* str(n) for an integer n
RECURSIVE FormatNat(_)
FormatNat(n) ==
    IF n < 10 THEN <<Digits[n + 1]>>
    ELSE FormatNat(n \div 10) \o <<Digits[(n % 10) + 1]>>

FormatInt(n) == IF n < 0 THEN <<"-">> \o FormatNat(0 - n) ELSE FormatNat(n)

\* A faulty variant of CurrentEffectId: the selection is left out of the id.
CurrentEffectIdModeOnly(st) ==
    IF st.mode = AUTO THEN EffectAuto
    ELSE IF st.mode = SCENE THEN ScenePrefix
    ELSE ManualPrefix

\* DeviceState.current_effect_id
CurrentEffectId(st) ==
    IF st.mode = AUTO THEN EffectAuto
    ELSE IF st.mode = SCENE THEN ScenePrefix \o FormatInt(st.active_scene_index)
    ELSE IF st.mode = MANUAL THEN ManualPrefix \o FormatInt(st.active_manual_animation_index)
    ELSE None

Cmd(op, arg) == [op |-> op, arg |-> arg]

IndexProp(kind) == IF kind = "scene" THEN "active_scene_index" ELSE "manual_animation_index"
KindMode(kind) == IF kind = "scene" THEN SCENE ELSE MANUAL

\* A faulty variant of RouteCheck: no route is required.
RouteCheckSkipped(rt, ps) == "ok"

\* `if not self._routes.<p>: raise RuntimeError(...)` for each p of ps.
RouteCheck(rt, ps) == IF \E p \in ps : rt[p] = None THEN "RoutesUnavailable" ELSE "ok"

\* A faulty variant of RangeCheck: 1.001 passes.
RangeCheckLoose(x) == IF x < 0 THEN "InvalidRange" ELSE "ok"

\* `if not 0.0 <= x <= 1.0: raise ValueError(...)`
RangeCheck(x) == IF InRange(x) THEN "ok" ELSE "InvalidRange"

First(errs) ==
    IF \E i \in DOMAIN errs : errs[i] # "ok"
    THEN errs[CHOOSE i \in DOMAIN errs : errs[i] # "ok" /\ \A j \in 1..(i - 1) : errs[j] = "ok"]
    ELSE "ok"

\* The palette property of the mode the device is in.
PaletteProp(mode, part) == ModeKey[mode] \o "_" \o part

\* set_hue / set_saturation: registered, argument in range, and the route of
\* the palette of the current mode known.
PalettePrecheck(c) ==
    First(<<RegisteredCheck(registered), RangeCheck(c.arg),
            RouteCheck(routes, {PaletteProp(state.mode,
                IF c.op = "set_hue" THEN "hue" ELSE "saturation")})>>)

\* The checks a command makes before it sends anything, in the order of the code.
Precheck(c) ==
    CASE c.op \in {"turn_on", "turn_off"} ->
            First(<<RegisteredCheck(registered), RouteCheck(routes, {"is_displaying"})>>)
      [] c.op = "set_brightness" ->
            First(<<RegisteredCheck(registered), RouteCheck(routes, {"brightness"}),
                    RangeCheck(c.arg)>>)
      [] c.op = "set_mode" ->
            First(<<RegisteredCheck(registered), RouteCheck(routes, {"mode"})>>)
      [] c.op = "set_effect" ->
            LET e == ParseEffect(c.arg) IN
            First(<<RegisteredCheck(registered),
                    IF e.kind = "unknown" THEN "UnknownEffect"
                    ELSE IF e.kind = "auto" THEN RouteCheck(routes, {"mode"})
                    ELSE First(<<RouteCheck(routes, {"mode"}),
                                 RouteCheck(routes, {IndexProp(e.kind)})>>)>>)
      [] c.op \in {"set_hue", "set_saturation"} -> PalettePrecheck(c)

\* The property whose route the final datagram of a command goes to, and its parameters.
FinalProp(c) ==
    CASE c.op \in {"turn_on", "turn_off"} -> "is_displaying"
      [] c.op = "set_brightness" -> "brightness"
      [] c.op = "set_mode" -> "mode"
      [] c.op = "set_effect" ->
            IF ParseEffect(c.arg).kind = "auto" THEN "mode"
            ELSE IndexProp(ParseEffect(c.arg).kind)
      [] c.op = "set_hue" -> PaletteProp(state.mode, "hue")
      [] c.op = "set_saturation" -> PaletteProp(state.mode, "saturation")

\* A faulty variant of FinalParams: the power value goes out as an OSC boolean.
FinalParamsBoolTag(c) ==
    CASE c.op = "turn_on" -> <<[type |-> "T", value |-> 1], IntParam(0)>>
      [] c.op = "turn_off" -> <<[type |-> "F", value |-> 0], IntParam(0)>>
      [] OTHER -> <<IntParam(0), IntParam(0)>>

\* The params argument of the last _send_command of each command.
FinalParams(c) ==
    CASE c.op = "turn_on" -> <<IntParam(1), IntParam(0)>>
      [] c.op = "turn_off" -> <<IntParam(0), IntParam(0)>>
      [] c.op = "set_mode" -> <<IntParam(c.arg), IntParam(0)>>
      [] c.op = "set_effect" ->
            IF ParseEffect(c.arg).kind = "auto" THEN <<IntParam(AUTO), IntParam(0)>>
            ELSE <<IntParam(ParseEffect(c.arg).index), IntParam(0)>>
      [] OTHER -> <<FloatParam(Round2(c.arg)), IntParam(0)>>

\* A faulty variant of NeedsModeChange: the mode is never sent first.
NeedsModeChangeNever(c) == FALSE

\* Whether _set_scene / _set_manual_animation first sends the mode.
NeedsModeChange(c) ==
    /\ c.op = "set_effect"
    /\ ParseEffect(c.arg).kind \in {"scene", "manual"}
    /\ state.mode # KindMode(ParseEffect(c.arg).kind)

\* A faulty variant of Optimistic: the state waits for the next snapshot.
OptimisticNone(st, c) == st

\* The optimistic update after the final datagram.
Optimistic(st, c) ==
    CASE c.op = "turn_on" -> [st EXCEPT !.is_on = TRUE]
      [] c.op = "turn_off" -> [st EXCEPT !.is_on = FALSE]
      [] c.op = "set_brightness" -> [st EXCEPT !.brightness = Round2(c.arg)]
      [] c.op = "set_mode" -> [st EXCEPT !.mode = c.arg]
      [] c.op = "set_effect" ->
            LET e == ParseEffect(c.arg) IN
            IF e.kind = "auto" THEN [st EXCEPT !.mode = AUTO]
            ELSE SetValue(st, IndexProp(e.kind), e.index)
      [] c.op = "set_hue" -> SetValue(st, PaletteProp(st.mode, "hue"), Round2(c.arg))
      [] c.op = "set_saturation" ->
            SetValue(st, PaletteProp(st.mode, "saturation"), Round2(c.arg))

\* A faulty variant of CommandRoute: the fixed route of some firmware, whatever was observed.
CommandRouteGuessed(rt, p) == RouteString("A", p)

\* The route a command sends on: the one held in self._routes for the property.
CommandRoute(rt, p) == rt[p]

\* A command up to its first await of send_to.
CmdCall(c, fail) ==
    /\ cmd.pc = "idle"
    /\ budget > 0
    /\ budget' = budget - 1
    /\ LET pre == Precheck(c)
           first == IF NeedsModeChange(c)
                    THEN SendCommand(CommandRoute(routes, "mode"),
                                     <<IntParam(KindMode(ParseEffect(c.arg).kind)), IntParam(0)>>,
                                     DEVICE_CONTROL_PORT, "mode", fail)
                    ELSE SendCommand(CommandRoute(routes, FinalProp(c)), FinalParams(c),
                                     DEVICE_CONTROL_PORT, FinalProp(c), fail)
       IN  IF pre # "ok"
           THEN /\ ev' = Ev(c.op, c.arg, pre)
                /\ out' = <<>>
                /\ UNCHANGED cmd
           ELSE /\ out' = first.out
                /\ IF first.err # "ok"
                   THEN /\ ev' = Ev(c.op, c.arg, first.err)
                        /\ UNCHANGED cmd
                   ELSE /\ ev' = Ev(c.op, c.arg, "pending")
                        /\ cmd' = [pc |-> IF NeedsModeChange(c) THEN "mode_sent" ELSE "sent",
                                   op |-> c.op, arg |-> c.arg, clean |-> TRUE]
    /\ UNCHANGED <<rs, ip_address, listener_running, registered, handlers, regpc, state,
                   routes, state_events, evset, gpc, left, observed, latest,
                   applied_since>>
    /\ UNCHANGED aux

\* send_to returns after the mode datagram of _set_scene / _set_manual_animation:
\* the mode is updated and the index is sent.
CmdModeSent(fail) ==
    /\ cmd.pc = "mode_sent"
    /\ LET c == Cmd(cmd.op, cmd.arg)
           e == ParseEffect(cmd.arg)
           second == SendCommand(CommandRoute(routes, IndexProp(e.kind)), FinalParams(c),
                                 DEVICE_CONTROL_PORT, IndexProp(e.kind), fail)
       IN  /\ state' = [state EXCEPT !.mode = KindMode(e.kind)]
           /\ out' = second.out
           /\ IF second.err # "ok"
              THEN /\ ev' = Ev(c.op, c.arg, second.err)
                   /\ cmd' = NoCmd
              ELSE /\ ev' = Ev(c.op, c.arg, "pending")
                   /\ cmd' = [cmd EXCEPT !.pc = "sent"]
    /\ UNCHANGED <<rs, ip_address, listener_running, registered, handlers, regpc, routes,
                   state_events, evset, gpc, left, observed, latest, applied_since,
                   budget>>
    /\ UNCHANGED aux

\* send_to returns after the final datagram: the optimistic update.
CmdSent ==
    /\ cmd.pc = "sent"
    /\ state' = Optimistic(state, Cmd(cmd.op, cmd.arg))
    /\ cmd' = NoCmd
    /\ out' = <<>>
    /\ ev' = Ev(cmd.op, cmd.arg, "ok")
    /\ UNCHANGED <<rs, ip_address, listener_running, registered, handlers, regpc, routes,
                   state_events, evset, gpc, left, observed, latest, applied_since,
                   budget>>
    /\ UNCHANGED aux

-----------------------------------------------------------------------------
(* resolve_ip *)

\* What a step of resolve_ip reports when it has no address: the stage it is at.
NoAnswer(via) == [via |-> via, ip |-> None, serial |-> None]

\* The three early returns of resolve_ip.
ResolveGuard(mac, serial, running) ==
    IF mac = None THEN "NoMac"
    ELSE IF serial = None THEN "NoSerial"
    ELSE IF ~running THEN "ListenerNotRunning"
    ELSE "ok"

\* A faulty variant of Adopt: the command target moves, the state's field does not.
AdoptTargetOnly(new_ip) ==
    /\ ip_address' = new_ip
    /\ UNCHANGED state

\* `self._ip_address = new_ip; self._state.ip_address = new_ip` when new_ip
\* differs from the IP held; nothing otherwise.
Adopt(new_ip) ==
    IF new_ip # ip_address
    THEN /\ ip_address' = new_ip
         /\ state' = [state EXCEPT !.ip_address = new_ip]
    ELSE UNCHANGED <<ip_address, state>>

\* resolve_ip up to `await lookup_ip_by_mac(self._mac_address)`.
ResolveCall ==
    /\ rs.pc = "idle"
    /\ budget > 0
    /\ budget' = budget - 1
    /\ out' = <<>>
    /\ IF ResolveGuard(IdentityMac, IdentitySerial, listener_running) # "ok"
       THEN /\ ev' = Ev("resolve_ip", NoAnswer("call"),
                        ResolveGuard(IdentityMac, IdentitySerial, listener_running))
            /\ UNCHANGED rs
       ELSE /\ ev' = Ev("resolve_ip", NoAnswer("call"), "pending")
            /\ rs' = [rs EXCEPT !.pc = "arp", !.before = ip_address]
    /\ UNCHANGED <<ip_address, listener_running, registered, handlers, regpc, state, routes,
                   state_events, evset, gpc, left, cmd, observed, latest, applied_since>>
    /\ UNCHANGED aux

\* The neighbour table answers: `found` is the IP it holds for the MAC, or
\* None.  `there` is history: the serial of the device that answers at that
\* IP, which the code does not ask for.
ResolveArp(found, there) ==
    /\ rs.pc = "arp"
    /\ out' = <<>>
    /\ IF found # None
       THEN /\ Adopt(found)
            /\ rs' = [rs EXCEPT !.pc = "idle"]
            /\ ev' = Ev("resolve_ip", [via |-> "arp", ip |-> found, serial |-> there], "True")
       ELSE /\ rs' = [rs EXCEPT !.pc = "discovery", !.broadcast = TRUE]
            /\ ev' = Ev("resolve_ip", NoAnswer("arp"), "pending")
            /\ UNCHANGED <<ip_address, state>>
    /\ UNCHANGED <<listener_running, registered, handlers, regpc, routes, state_events, evset,
                   gpc, left, cmd, observed, latest, applied_since, budget>>
    /\ UNCHANGED aux

\* DiscoveryService.find_device_by_serial(self._serial_number, timeout) answers:
\* `found` is the IP of the device that replied with the identity serial, or None.
ResolveDiscovery(found) ==
    /\ rs.pc = "discovery"
    /\ out' = <<>>
    /\ rs' = [rs EXCEPT !.pc = "idle"]
    /\ IF found # None
       THEN /\ Adopt(found)
            /\ ev' = Ev("resolve_ip",
                        [via |-> "discovery", ip |-> found, serial |-> IdentitySerial], "True")
       ELSE /\ ev' = Ev("resolve_ip", NoAnswer("discovery"), "False")
            /\ UNCHANGED <<ip_address, state>>
    /\ UNCHANGED <<listener_running, registered, handlers, regpc, routes, state_events, evset,
                   gpc, left, cmd, observed, latest, applied_since, budget>>
    /\ UNCHANGED aux

\* The task is cancelled while suspended in the ARP lookup or in discovery.
ResolveCancel ==
    /\ rs.pc \in {"arp", "discovery"}
    /\ rs' = [rs EXCEPT !.pc = "idle"]
    /\ out' = <<>>
    /\ ev' = Ev("resolve_ip", NoAnswer("cancel"), "Cancelled")
    /\ UNCHANGED <<ip_address, listener_running, registered, handlers, regpc, state, routes,
                   state_events, evset, gpc, left, cmd, observed, latest, applied_since,
                   budget>>
    /\ UNCHANGED aux

-----------------------------------------------------------------------------
Next ==
    \/ ListenerStop
    \/ \E t \in RegTasks : RegisterCall(t)
    \/ \E t \in RegTasks : RegisterFinish(t)
    \/ \E t \in RegTasks : UnregisterCall(t)
    \/ \E t \in RegTasks : UnregisterFinish(t)
    \/ \E source_ip \in Ips, fb \in SnapshotInputs : HandlePacket(source_ip, fb)
    \/ ResolveCall
    \/ \E found \in Ips \cup {None}, there \in Serials : ResolveArp(found, there)
    \/ \E found \in Ips \cup {None} : ResolveDiscovery(found)
    \/ ResolveCancel
    \/ \E c \in Callers, timeout \in 0..MaxTimeout, fail \in BOOLEAN : GetStateCall(c, timeout, fail)
    \/ \E c \in Callers : GetStateWait(c)
    \/ \E c \in Callers : GetStateReturn(c)
    \/ \E c \in Callers : GetStateTimeout(c)
    \/ \E c \in Callers : GetStateCancel(c)
    \/ Tick
    \/ \E on \in {"turn_on", "turn_off"}, fail \in BOOLEAN : CmdCall(Cmd(on, 0), fail)
    \/ \E b \in BrightnessInputs, fail \in BOOLEAN : CmdCall(Cmd("set_brightness", b), fail)
    \/ \E m \in Modes, fail \in BOOLEAN : CmdCall(Cmd("set_mode", m), fail)
    \/ \E e \in EffectInputs, fail \in BOOLEAN : CmdCall(Cmd("set_effect", e), fail)
    \/ \E h \in PaletteInputs, fail \in BOOLEAN : CmdCall(Cmd("set_hue", h), fail)
    \/ \E s \in PaletteInputs, fail \in BOOLEAN : CmdCall(Cmd("set_saturation", s), fail)
    \/ \E fail \in BOOLEAN : CmdModeSent(fail)
    \/ CmdSent

Spec == Init /\ [][Next]_vars

\* The scheduling of the event loop: a task that can run does run (send_to
\* returns, a set event or an elapsed timeout resumes its waiter), and time
\* passes.  Cancellation and new calls are the environment's choice.
Fairness ==
    /\ SF_vars(Tick)
    /\ \A c \in Callers :
          /\ WF_vars(GetStateWait(c))
          /\ WF_vars(GetStateReturn(c))
          /\ WF_vars(GetStateTimeout(c))

LiveSpec == Init /\ [][Next]_vars /\ Fairness

-----------------------------------------------------------------------------
(* The example poller: examples/poll_device.py, class DevicePoller.  One task
   runs start() and then _poll_loop(); an action is the code of that task
   between two awaits.  main() keeps the listener running while the poller
   runs and passes the MAC and the serial of the device.  Time passes while
   the task sleeps and while a wait runs into its timeout. *)

Min(a, b) == IF a <= b THEN a ELSE b

\* What a step did is recorded in the step field.
Did(p, what) == [p EXCEPT !.step = @ \cup {what}]

\* The poller's record at the beginning of a step.
Fresh(p) == [p EXCEPT !.step = {}, !.sent = <<>>]

\* A datagram handed to listener.send_to by the poller or by its device.
Probe(route, ip) == [route |-> route, ip |-> ip]

\* `await asyncio.sleep(self._current_backoff)`
Sleep(p) == [p EXCEPT !.pc = "sleep"]

\* A faulty variant of Backoff: the interval doubles without a cap.
BackoffUncapped(b) == b * 2

\* `min(self._current_backoff * 2, MAX_BACKOFF)`
Backoff(b) == Min(b * 2, MAX_BACKOFF)

\* _poll_loop after `success = await self._poll_once()` returned True.
LoopSuccess(p) ==
    Sleep(Did([p EXCEPT !.consecutive_failures = 0,
                        !.current_backoff = POLL_INTERVAL], "poll_ok"))

\* _poll_loop when _poll_once raised: `except Exception`, then the sleep.
LoopRaised(p) ==
    Sleep(Did([p EXCEPT !.consecutive_failures = @ + 1], "poll_raised"))

\* _poll_loop: "Apply exponential backoff", then the sleep.
LoopBackoff(p) == Sleep([p EXCEPT !.current_backoff = Backoff(@)])

\* _poll_loop after `resolved = await self._resolve_device()`.
LoopResolved(p, resolved) ==
    LoopBackoff(IF resolved
                THEN [p EXCEPT !.consecutive_failures = 0,
                               !.current_backoff = POLL_INTERVAL]
                ELSE p)

\* start() after `await self._resolve_device()`: the reply handler is added
\* and the task of _poll_loop is created.
StartResolved(p) == [p EXCEPT !.pc = "poll"]

\* _resolve_device returns to its caller.
ResolveReturn(p, resolved) ==
    LET q == Did([p EXCEPT !.new_ip = None],
                 IF resolved THEN "resolved" ELSE "unresolved")
    IN  IF p.ret = "start" THEN StartResolved(q) ELSE LoopResolved(q, resolved)

\* `time_since_last < self._ip_resolve_cooldown and self._last_ip_resolve_time > 0`
OnCooldown(t, last) == (t - last) < IP_RESOLVE_COOLDOWN /\ last > 0

\* _resolve_device is called at time t: it returns False at once on cooldown,
\* and otherwise notes the time and awaits lookup_ip_by_mac.
ResolveDevice(p, ret, t) ==
    LET q == Did([p EXCEPT !.ret = ret], "resolve")
    IN  IF OnCooldown(t, q.last_ip_resolve_time)
        THEN ResolveReturn(Did(q, "cooldown"), FALSE)
        ELSE Did([q EXCEPT !.last_ip_resolve_time = t, !.pc = "arp"], "arp")

\* _poll_loop after _poll_once returned False at time t.
LoopFailed(p, t) ==
    LET q == Did([p EXCEPT !.consecutive_failures = @ + 1], "poll_failed")
    IN  IF q.consecutive_failures >= MAX_FAILED_POLLS
        THEN ResolveDevice(q, "loop", t)
        ELSE LoopBackoff(q)

\* Strategy 2 of _resolve_device: `await discovery.find_device_by_serial(...)`.
Broadcast(p) == Did([p EXCEPT !.pc = "discovery"], "broadcast")

\* _resolve_device adopts new_ip: a device bound to another address is
\* unregistered (an await) and dropped; then it returns True.
AdoptIp(p, new_ip) ==
    IF new_ip # p.ip_address
    THEN LET q == Did([p EXCEPT !.ip_address = new_ip], "adopt")
         IN  IF q.device # None
             THEN [q EXCEPT !.pc = "unregister"]
             ELSE ResolveReturn(q, TRUE)
    ELSE ResolveReturn(p, TRUE)

\* A faulty variant of CounterChanged: every reply counts as a change.
CounterChangedAlways(previous, counter) == TRUE

\* `self._state_counter is None or state_counter != self._state_counter`
CounterChanged(previous, counter) == previous = NoCounter \/ counter # previous

\* `state = await self._device.get_state(timeout=10.0)`: get_state hands
\* /getState to the socket, addressed to the IP the device was created with.
Fetch(p) ==
    Did([p EXCEPT !.pc = "fetch",
                  !.sent = Append(@, Probe(GET_STATE_ROUTE, p.device))], "get_state")

PollerFrame == UNCHANGED <<dvars, state_callbacks, notify, pvars>>

\* poller.start()
PollerStart ==
    /\ poller.pc = "new"
    /\ poller' = ResolveDevice([Fresh(poller) EXCEPT !.running = TRUE], "start", now)
    /\ UNCHANGED now
    /\ PollerFrame

\* lookup_ip_by_mac returns: the neighbour table has the MAC at `found` or not at all.
ResolveDeviceArp(found) ==
    /\ poller.pc = "arp"
    /\ poller' = IF found # None
                 THEN Did([Fresh(poller) EXCEPT !.new_ip = found, !.pc = "verify"], "verify")
                 ELSE Broadcast(Fresh(poller))
    /\ UNCHANGED now
    /\ PollerFrame

\* verify_device returns: the device at new_ip answered with `serial`, or
\* nothing answered within the timeout.
ResolveDeviceVerify(serial) ==
    /\ poller.pc = "verify"
    /\ now' = IF serial = None THEN now + VERIFY_TIMEOUT ELSE now
    /\ poller' = IF serial = IdentitySerial
                 THEN AdoptIp(Fresh(poller), poller.new_ip)
                 ELSE Broadcast(Fresh(poller))
    /\ PollerFrame

\* find_device_by_serial returns: the device answered from `found`, or
\* nothing answered within the timeout.
ResolveDeviceDiscovery(found) ==
    /\ poller.pc = "discovery"
    /\ now' = IF found = None THEN now + FIND_TIMEOUT ELSE now
    /\ poller' = IF found # None
                 THEN AdoptIp(Fresh(poller), found)
                 ELSE ResolveReturn(Fresh(poller), FALSE)
    /\ PollerFrame

\* `await self._device.unregister()` returns: `self._device = None; return True`.
ResolveDeviceUnregistered ==
    /\ poller.pc = "unregister"
    /\ poller' = ResolveReturn([Fresh(poller) EXCEPT !.device = None], TRUE)
    /\ UNCHANGED now
    /\ PollerFrame

\* _poll_loop calls _poll_once: without an IP it returns False at once,
\* otherwise _send_discovery awaits send_to.
PollOnce ==
    /\ poller.pc = "poll"
    /\ poller.cycles < MaxCycles
    /\ LET p == [Fresh(poller) EXCEPT !.cycles = @ + 1]
       IN  poller' = IF p.ip_address = None
                     THEN LoopFailed(p, now)
                     ELSE [p EXCEPT !.pc = "send"]
    /\ UNCHANGED now
    /\ PollerFrame

\* send_to returns or raises: the probe has left for the poller's IP and the
\* task waits for the reply, or the exception ends this _poll_once.
PollSent(fail) ==
    /\ poller.pc = "send"
    /\ poller' = IF fail
                 THEN LoopRaised(Fresh(poller))
                 ELSE [Fresh(poller) EXCEPT
                          !.pc = "wait",
                          !.sent = <<Probe(DISCOVERY_ROUTE, poller.ip_address)>>]
    /\ UNCHANGED now
    /\ PollerFrame

\* No reply within the timeout: _poll_once returns False.
PollTimeout ==
    /\ poller.pc = "wait"
    /\ now' = now + REPLY_TIMEOUT
    /\ poller' = LoopFailed(Fresh(poller), now')
    /\ PollerFrame

\* The device at the poller's IP replies with state_counter = counter.  When
\* the counter changed, the device object is created and registered if there
\* is none (an await) and the state is fetched; otherwise _poll_once returns True.
PollReply(counter) ==
    /\ poller.pc = "wait"
    /\ LET p == Did([Fresh(poller) EXCEPT !.reply = counter], "reply")
       IN  poller' =
             IF CounterChanged(p.state_counter, counter)
             THEN LET q == [p EXCEPT !.state_counter = counter]
                  IN  IF q.device = None
                      THEN [q EXCEPT !.device = q.ip_address, !.pc = "register"]
                      ELSE Fetch(q)
             ELSE LoopSuccess(p)
    /\ UNCHANGED now
    /\ PollerFrame

\* `await self._device.register()` returns.
PollRegistered ==
    /\ poller.pc = "register"
    /\ poller' = Fetch(Fresh(poller))
    /\ UNCHANGED now
    /\ PollerFrame

\* get_state returns the state, times out or raises; _poll_once catches both
\* and returns True.
PollFetched(outcome) ==
    /\ poller.pc = "fetch"
    /\ now' = IF outcome = "timeout" THEN now + FETCH_TIMEOUT ELSE now
    /\ poller' = LoopSuccess(Did([Fresh(poller) EXCEPT
                                      !.fetched = IF outcome = "state"
                                                  THEN poller.state_counter ELSE @],
                                  outcome))
    /\ PollerFrame

\* The sleep is over: `while self._running`.
PollWake ==
    /\ poller.pc = "sleep"
    /\ now' = now + poller.current_backoff
    /\ poller' = [Fresh(poller) EXCEPT !.pc = "poll"]
    /\ PollerFrame

PollerNext ==
    \/ PollerStart
    \/ \E found \in Ips \cup {None} : ResolveDeviceArp(found)
    \/ \E serial \in Serials \cup {None} : ResolveDeviceVerify(serial)
    \/ \E found \in Ips \cup {None} : ResolveDeviceDiscovery(found)
    \/ ResolveDeviceUnregistered
    \/ PollOnce
    \/ \E fail \in BOOLEAN : PollSent(fail)
    \/ PollTimeout
    \/ \E counter \in Counters : PollReply(counter)
    \/ PollRegistered
    \/ \E outcome \in {"state", "timeout", "error"} : PollFetched(outcome)
    \/ PollWake

PollerSpec == Init /\ [][PollerNext]_vars

-----------------------------------------------------------------------------
(* The subscribers: add_state_callback, remove_state_callback and
   _invoke_state_callbacks, which _on_state_packet awaits after it has set the
   wait-signals.  The assembler runs _on_state_packet on a task of its own, so
   a second snapshot can be processed while a coroutine callback of the first
   is suspended. *)

\* Two subscribers: a plain function that raises, and a coroutine function
\* whose coroutine yields and later returns or raises.
Callbacks == {"bad", "coro"}

\* The payloads the subscribers are notified of, or not: two that are applied,
\* one whose processing fails and one that cannot be decoded.
SubscriberSnapshots ==
    { Snap(IdentitySerial, InitialIp, "A", 1, {}, {}, FALSE),
      Snap(IdentitySerial, InitialIp, "B", 2, {}, {}, FALSE),
      Snap(IdentitySerial, InitialIp, "B", 2, {}, {}, TRUE),
      Undecodable }

\* `asyncio.iscoroutine(result)`
IsCoroutine(cb) == cb = "coro"

\* The plain function raises whenever it is called.
Raises(cb) == cb = "bad"

\* What a step of _on_state_packet does, in program order.
Event(e, cb) == [e |-> e, cb |-> cb]

\* _on_state_packet for a payload that is applied: decode, update under
\* _state_lock, set the wait-signals, then the callbacks.
PacketOrder(calls) ==
    <<Event("decode", None), Event("acquire", None), Event("update", None),
      Event("release", None), Event("set_events", None)>> \o calls

\* _on_state_packet for a payload that is not applied.
FailedPacketOrder(err) ==
    IF err = "DecodeError"
    THEN <<Event("decode", None)>>
    ELSE <<Event("decode", None), Event("acquire", None), Event("update", None),
           Event("release", None)>>

\* A faulty variant of NextCallback: an exception of a callback ends the loop.
NextCallbackUnlessRaised(list, i, raised) == IF raised THEN Len(list) + 1 ELSE i + 1

\* `except Exception: self._logger.exception(...)` inside the loop: the loop
\* goes on with the next position whether the callback raised or not.
NextCallback(list, i, raised) == i + 1

RECURSIVE RunCallbacks(_, _, _)

\* A faulty variant of AwaitResult: the coroutine is left running and the loop goes on.
AwaitResultLater(list, i, n) == RunCallbacks(list, i + 1, n)

\* `await result`: the loop is suspended until the coroutine has finished.
AwaitResult(list, i, n) == [n EXCEPT !.pc = "awaiting", !.index = i]

\* `for callback in self._state_callbacks:` from position i (the list
\* iterator reads the list as it is now), up to the first await that yields
\* or the end of the list.
RunCallbacks(list, i, n) ==
    IF i > Len(list)
    THEN [n EXCEPT !.pc = IF n.running = {} THEN "idle" ELSE "awaiting", !.index = i]
    ELSE LET cb == list[i]
             m == [n EXCEPT !.log = Append(@, cb),
                            !.trace = Append(@, Event("call", cb)),
                            !.overlap = @ \/ n.running # {}]
         IN  IF IsCoroutine(cb)
             THEN AwaitResult(list, i, [m EXCEPT !.running = @ \cup {cb}])
             ELSE RunCallbacks(list, NextCallback(list, i, Raises(cb)), m)

\* The subscriptions changed: the notifications in progress are marked.
Disturbed(n) == IF n.pc = "idle" THEN NoNotify ELSE [n EXCEPT !.clean = FALSE, !.trace = <<>>]

\* add_state_callback(callback)
AddStateCallback(cb) ==
    /\ cb \notin Range(state_callbacks)
    /\ state_callbacks' = Append(state_callbacks, cb)
    /\ notify' = [t \in NotifyTasks |-> Disturbed(notify[t])]
    /\ UNCHANGED <<dvars, poller, now, pvars>>

\* remove_state_callback(callback)
RemoveStateCallback(cb) ==
    /\ cb \in Range(state_callbacks)
    /\ state_callbacks' = Remove(state_callbacks, cb)
    /\ notify' = [t \in NotifyTasks |-> Disturbed(notify[t])]
    /\ UNCHANGED <<dvars, poller, now, pvars>>

\* The assembler hands a payload from the device's IP to _on_state_packet on
\* task t; when it is applied, _invoke_state_callbacks runs up to its first
\* await that yields.
Deliver(t, fb) ==
    /\ notify[t].pc = "idle"
    /\ OnStatePacket([fb EXCEPT !.source = ip_address])
    /\ notify' = [notify EXCEPT ![t] =
                    IF ev'.err = "ok"
                    THEN LET r == RunCallbacks(state_callbacks, 1,
                                               [NoNotify EXCEPT !.start = state_callbacks])
                         IN  [r EXCEPT !.trace = PacketOrder(@)]
                    ELSE [NoNotify EXCEPT !.trace = FailedPacketOrder(ev'.err)]]
    /\ UNCHANGED <<state_callbacks, poller, now, pvars>>

\* The coroutine callback cb of task t's notification finishes, by returning
\* or by raising, and the loop goes on.
ResumeCallback(t, cb, raised) ==
    /\ notify[t].pc = "awaiting"
    /\ cb \in notify[t].running
    /\ notify' = [notify EXCEPT ![t] =
                    RunCallbacks(state_callbacks,
                                 NextCallback(state_callbacks, notify[t].index, raised),
                                 [notify[t] EXCEPT
                                     !.running = @ \ {cb},
                                     !.raised = @ \/ raised,
                                     !.trace = <<>>])]
    /\ UNCHANGED <<dvars, state_callbacks, poller, now, pvars>>

NotifyNext ==
    \/ RegisterCall("app")
    \/ RegisterFinish("app")
    \/ \E cb \in Callbacks : AddStateCallback(cb)
    \/ \E cb \in Callbacks : RemoveStateCallback(cb)
    \/ \E t \in NotifyTasks, fb \in SubscriberSnapshots : Deliver(t, fb)
    \/ \E t \in NotifyTasks, cb \in Callbacks, raised \in BOOLEAN : ResumeCallback(t, cb, raised)

NotifySpec == Init /\ [][NotifyNext]_vars

-----------------------------------------------------------------------------
(* The identity of a device and its address.  update_ip_from_mac is the
   second operation that assigns _ip_address; it shares the position record
   of resolve_ip. *)

\* A MAC address that is not the device's.
OtherMac == "d8:13:2a:00:00:01"

\* The payloads of this part: one of the device, and three that report
\* another serial number, another MAC address or another IP address.
IdentitySnapshots ==
    { Snap(IdentitySerial, InitialIp, "A", 1, {}, {}, FALSE),
      Snap(OtherSerial, InitialIp, "A", 1, {}, {}, FALSE),
      [Snap(IdentitySerial, InitialIp, "A", 1, {}, {}, FALSE) EXCEPT !.mac = OtherMac],
      [Snap(OtherSerial, OtherIp, "B", 2, {}, {}, FALSE) EXCEPT !.mac = OtherMac] }

\* A faulty variant of serial_number: the property reads the state's field.
SerialNumberOfState(own, st) == st.serial_number

\* The property serial_number: `self._serial_number or self._state.serial_number`
serial_number(own, st) == IF own # None THEN own ELSE st.serial_number

\* The property mac_address: `self._mac_address or self._state.mac_address`
mac_address(own, st) == IF own # None THEN own ELSE st.mac_address

\* update_ip_from_mac up to `await lookup_ip_by_mac(self._mac_address)`.
UpdateIpCall ==
    /\ rs.pc = "idle"
    /\ budget > 0
    /\ budget' = budget - 1
    /\ out' = <<>>
    /\ IF IdentityMac = None
       THEN /\ ev' = Ev("update_ip_from_mac", NoAnswer("call"), "False")
            /\ UNCHANGED rs
       ELSE /\ ev' = Ev("update_ip_from_mac", NoAnswer("call"), "pending")
            /\ rs' = [rs EXCEPT !.pc = "lookup", !.before = ip_address]
    /\ UNCHANGED <<ip_address, listener_running, registered, handlers, regpc, state, routes,
                   state_events, evset, gpc, left, cmd, observed, latest, applied_since>>
    /\ UNCHANGED aux

\* The neighbour table answers update_ip_from_mac: `found` is the IP it holds
\* for the MAC, or None.
UpdateIpFromMac(found) ==
    /\ rs.pc = "lookup"
    /\ rs' = [rs EXCEPT !.pc = "idle"]
    /\ out' = <<>>
    /\ IF found # None
       THEN /\ Adopt(found)
            /\ ev' = Ev("update_ip_from_mac", [via |-> "arp", ip |-> found, serial |-> None],
                        IF found # ip_address THEN "True" ELSE "False")
       ELSE /\ ev' = Ev("update_ip_from_mac", NoAnswer("arp"), "False")
            /\ UNCHANGED <<ip_address, state>>
    /\ UNCHANGED <<listener_running, registered, handlers, regpc, routes, state_events, evset,
                   gpc, left, cmd, observed, latest, applied_since, budget>>
    /\ UNCHANGED aux

IdentityNext ==
    \/ RegisterCall("app")
    \/ RegisterFinish("app")
    \/ \E fb \in IdentitySnapshots : HandlePacket(ip_address, fb)
    \/ ResolveCall
    \/ \E found \in Ips \cup {None}, there \in Serials : ResolveArp(found, there)
    \/ \E found \in Ips \cup {None} : ResolveDiscovery(found)
    \/ UpdateIpCall
    \/ \E found \in Ips \cup {None} : UpdateIpFromMac(found)
    \/ \E on \in {"turn_on", "turn_off"}, fail \in BOOLEAN : CmdCall(Cmd(on, 0), fail)
    \/ CmdSent

IdentitySpec == Init /\ [][IdentityNext]_vars

-----------------------------------------------------------------------------
(* DeviceState.effects and _is_animation_compatible.  Strings are sequences
   of characters, as for the effect ids. *)

UpperCase ==
    <<"A", "B", "C", "D", "E", "F", "G", "H", "I", "J", "K", "L", "M",
      "N", "O", "P", "Q", "R", "S", "T", "U", "V", "W", "X", "Y", "Z">>
LowerCase ==
    <<"a", "b", "c", "d", "e", "f", "g", "h", "i", "j", "k", "l", "m",
      "n", "o", "p", "q", "r", "s", "t", "u", "v", "w", "x", "y", "z">>

\* str.lower()
LowerChar(ch) ==
    IF \E i \in 1..26 : UpperCase[i] = ch
    THEN LowerCase[CHOOSE i \in 1..26 : UpperCase[i] = ch]
    ELSE ch
Lower(s) == [i \in 1..Len(s) |-> LowerChar(s[i])]

\* `key in text`
Contains(key, text) ==
    \E i \in 0..(Len(text) - Len(key)) : SubSeq(text, i + 1, i + Len(key)) = key

Separator == <<":", ":">>

\* animation_id.split("::", 1)[0]: what precedes the first "::"
PrefixOf(id) ==
    LET at == CHOOSE i \in 1..(Len(id) - 1) :
                  /\ SubSeq(id, i, i + 1) = Separator
                  /\ \A j \in 1..(i - 1) : SubSeq(id, j, j + 1) # Separator
    IN  SubSeq(id, 1, at - 1)

Generic == <<"g", "e", "n", "e", "r", "i", "c">>
Fluora == <<"f", "l", "u", "o", "r", "a">>
FluoraAudio == <<"f", "l", "u", "o", "r", "a", "/", "a", "u", "d", "i", "o">>
Monos == <<"m", "o", "n", "o", "s">>

\* The dict ANIMATION_MODEL_PREFIXES, in its order.
ANIMATION_MODEL_PREFIXES ==
    <<[model_key |-> Fluora, allowed_prefixes |-> {Generic, Fluora, FluoraAudio}],
      [model_key |-> Monos, allowed_prefixes |-> {Generic, Monos}]>>

\* _is_animation_compatible(animation_id, model); a model that is None or
\* empty is the empty string here.
IsAnimationCompatible(animation_id, model) ==
    IF model = <<>> THEN TRUE
    ELSE IF ~Contains(Separator, animation_id) THEN TRUE
    ELSE LET prefix == Lower(PrefixOf(animation_id))
             model_lower == Lower(model)
             hits == {i \in DOMAIN ANIMATION_MODEL_PREFIXES :
                         Contains(ANIMATION_MODEL_PREFIXES[i].model_key, model_lower)}
         IN  IF hits # {}
             THEN prefix \in ANIMATION_MODEL_PREFIXES[
                                CHOOSE i \in hits : \A j \in hits : i <= j].allowed_prefixes
             ELSE prefix = Generic

\* The ids of the entries that the loop over manual_animations appends from
\* position i on (enumerate counts from 0).
RECURSIVE ManualEffects(_, _, _)
ManualEffects(manual_animations, i, model) ==
    IF i > Len(manual_animations) THEN <<>>
    ELSE (IF IsAnimationCompatible(manual_animations[i], model)
          THEN <<ManualPrefix \o FormatInt(i - 1)>>
          ELSE <<>>) \o ManualEffects(manual_animations, i + 1, model)

\* The ids of DeviceState.effects (the display names are left out).
Effects(st) ==
    <<EffectAuto>>
    \o [k \in 1..Len(st.scenes) |-> ScenePrefix \o FormatInt(st.scenes[k].index)]
    \o ManualEffects(st.manual_animations, 1, st.model)

\* The models a device reports: none, the two of the table, one with more
\* text around the key, one that is in no row of the table.
ModelInputs == {<<>>, <<"F", "l", "u", "o", "r", "a">>, <<"M", "o", "n", "o", "s">>, <<"F", "L", "U", "O", "R", "A", "2">>, <<"L", "u", "m", "e", "n">>}

\* Animation ids: of each category, with a category in capitals, with a
\* category of no row, and without a prefix.
AnimationInputs ==
    { <<"g", "e", "n", "e", "r", "i", "c", ":", ":", "R">>,
      <<"f", "l", "u", "o", "r", "a", ":", ":", "F">>,
      <<"f", "l", "u", "o", "r", "a", "/", "a", "u", "d", "i", "o", ":", ":", "B">>,
      <<"m", "o", "n", "o", "s", ":", ":", "M">>,
      <<"G", "e", "n", "e", "r", "i", "c", ":", ":", "U">>,
      <<"o", "t", "h", "e", "r", ":", ":", "X">>,
      <<"P", "l", "a", "i", "n">> }

\* The lists of at most two animations.
AnimationLists ==
    {<<>>} \cup {<<a>> : a \in AnimationInputs}
           \cup {<<a, b>> : a \in AnimationInputs, b \in AnimationInputs}

\* SceneInfo lists; the index of a scene need not be its position.
SceneLists == {<<>>, <<[index |-> 0]>>, <<[index |-> 3], [index |-> 1]>>}

EffectsInit ==
    /\ Created
    /\ fx \in {[NoFx EXCEPT !.model = m, !.scenes = sc, !.manual_animations = an] :
                  m \in ModelInputs, sc \in SceneLists, an \in AnimationLists}
    /\ norm = NoNorm
    /\ asm = NoAsm
    /\ mux = NoMux

\* state.effects is read.
ReadEffects ==
    /\ ~fx.read
    /\ fx' = [fx EXCEPT !.effects = Effects(fx), !.read = TRUE]
    /\ UNCHANGED <<dvars, state_callbacks, notify, poller, now, norm, asm, mux>>

EffectsSpec == EffectsInit /\ [][ReadEffects]_vars

-----------------------------------------------------------------------------
(* DevicePacketHandler.handle_packet for two devices on one listener.  The
   listener offers a datagram to its handlers in registration order until
   one claims it. *)

\* 0x46, the first byte of a fragment of a state packet.
FRAGMENT_MARKER == 70

\* Datagrams: a fragment with a payload, a fragment header without payload, a
\* marker with less than a header, a discovery reply ("$" is 36), nothing.
DatagramInputs ==
    { <<FRAGMENT_MARKER, 1, 0, 17, 5>>,
      <<FRAGMENT_MARKER, 1, 0, 17>>,
      <<FRAGMENT_MARKER, 1, 0>>,
      <<36, 123, 125, 10, 10>>,
      <<>> }

\* A faulty variant of IsFragment: the length is not looked at.
IsFragmentAnyLength(data) == data # <<>> /\ data[1] = FRAGMENT_MARKER

\* `len(data) >= 4 and data[0] == 0x46`
IsFragment(data) == Len(data) >= 4 /\ data[1] = FRAGMENT_MARKER

\* The listener's dispatch from position i of its handlers on: each is
\* offered the datagram; the first that returns True ends it.  handle_packet of
\* device d returns True, after handing the datagram to d's assembler, when
\* the source is d's IP and the datagram is a fragment.
RECURSIVE Offer(_, _, _, _, _)
Offer(hs, i, ips, source, data) ==
    IF i > Len(hs) THEN [offered |-> <<>>, fed |-> <<>>]
    ELSE IF ClaimsPacket(source, ips[hs[i]]) /\ IsFragment(data)
         THEN [offered |-> <<hs[i]>>, fed |-> <<hs[i]>>]
         ELSE LET rest == Offer(hs, i + 1, ips, source, data)
              IN  [offered |-> <<hs[i]>> \o rest.offered, fed |-> rest.fed]

MuxFrame == UNCHANGED <<dvars, state_callbacks, notify, poller, now, fx, norm, asm>>

\* register() of device d, both of its steps: its handler is appended.
MuxRegister(d) ==
    /\ d \notin Range(mux.handlers)
    /\ mux' = [mux EXCEPT !.handlers = Append(@, d)]
    /\ MuxFrame

\* unregister() of device d: its handler is taken out.
MuxUnregister(d) ==
    /\ d \in Range(mux.handlers)
    /\ mux' = [mux EXCEPT !.handlers = Remove(@, d)]
    /\ MuxFrame

\* resolve_ip of device d adopts new_ip.
MuxAdopt(d, new_ip) ==
    /\ new_ip # mux.ip[d]
    /\ mux' = [mux EXCEPT !.ip[d] = new_ip]
    /\ MuxFrame

\* A datagram arrives from source and is dispatched.
Dispatch(source, data) ==
    /\ LET r == Offer(mux.handlers, 1, mux.ip, source, data)
       IN  mux' = [mux EXCEPT !.last = [source |-> source, data |-> data,
                                        offered |-> r.offered, fed |-> r.fed]]
    /\ MuxFrame

MuxNext ==
    \/ \E d \in Devices : MuxRegister(d)
    \/ \E d \in Devices : MuxUnregister(d)
    \/ \E d \in Devices, new_ip \in Ips : MuxAdopt(d, new_ip)
    \/ \E source \in Ips, data \in DatagramInputs : Dispatch(source, data)

MuxSpec == Init /\ [][MuxNext]_vars

-----------------------------------------------------------------------------
(* PacketAssembler: fragments are buffered per (source, group id) until the
   indices 0 .. total-1 are all there; then the payloads are joined in index
   order, handed to the consumer, and the key is released. *)

\* The bytes of the fragment with index i of the state record.
FragmentPayload(i) == <<2 * i + 1, 2 * i + 2>>

\* The fragments that arrive: a record of one fragment, the three fragments
\* of a record, and a second copy of index 1 with other bytes.
FragmentInputs ==
    { Fragment(1, 0, FragmentPayload(0)),
      Fragment(3, 0, FragmentPayload(0)),
      Fragment(3, 1, FragmentPayload(1)),
      Fragment(3, 2, FragmentPayload(2)),
      Fragment(3, 1, <<9>>) }

\* The indices a group has received.
Indices(g) == {x.index : x \in g.got}

\* A faulty variant of IsDuplicate: no fragment is taken for a duplicate.
IsDuplicateNever(g, index) == FALSE

\* The group has a fragment with this index already.
IsDuplicate(g, index) == index \in Indices(g)

IsComplete(g) == Indices(g) = 0..(g.total - 1)

\* A faulty variant of JoinFrom: the fragments are joined from the highest
\* index down.
RECURSIVE JoinDownFrom(_, _)
JoinDownFrom(g, i) ==
    IF i >= g.total THEN <<>>
    ELSE JoinDownFrom(g, i + 1) \o (CHOOSE x \in g.got : x.index = i).payload

\* The payloads of the fragments i .. total-1 in ascending index.
RECURSIVE JoinFrom(_, _)
JoinFrom(g, i) ==
    IF i >= g.total THEN <<>>
    ELSE (CHOOSE x \in g.got : x.index = i).payload \o JoinFrom(g, i + 1)

AsmFrame == UNCHANGED <<dvars, state_callbacks, notify, poller, now, fx, norm, mux>>

\* process_packet for a fragment f of group gid from source.
ProcessPacket(source, gid, f) ==
    /\ asm.arrivals < MaxFragments
    /\ LET key == <<source, gid>>
           g == asm.groups[key]
           h == IF g.total = 0
                THEN [total |-> f.total, got |-> {}, born |-> asm.arrivals + 1]
                ELSE g
           n == [h EXCEPT !.got = @ \cup {[index |-> f.index, payload |-> f.payload]}]
       IN  IF h.total # f.total
           THEN asm' = [asm EXCEPT !.groups[key] = NoGroup,
                                   !.arrivals = @ + 1,
                                   !.last = Outcome(key, f, "conflict")]
           ELSE IF IsDuplicate(h, f.index)
           THEN asm' = [asm EXCEPT !.arrivals = @ + 1,
                                   !.last = Outcome(key, f, "duplicate")]
           ELSE IF IsComplete(n)
           THEN asm' = [asm EXCEPT !.groups[key] = NoGroup,
                                   !.emitted = Append(@, [key |-> key, born |-> n.born,
                                                          payload |-> JoinFrom(n, 0)]),
                                   !.arrivals = @ + 1,
                                   !.last = Outcome(key, f, "emitted")]
           ELSE asm' = [asm EXCEPT !.groups[key] = n,
                                   !.arrivals = @ + 1,
                                   !.last = Outcome(key, f, "buffered")]
    /\ AsmFrame

\* The deadline of the group under key has passed: it is dropped.
Expire(key) ==
    /\ asm.groups[key].total # 0
    /\ asm' = [asm EXCEPT !.groups[key] = NoGroup,
                          !.last = Outcome(key, NoFragment, "expired")]
    /\ AsmFrame

AssemblerNext ==
    \/ \E key \in Keys, f \in FragmentInputs : ProcessPacket(key[1], key[2], f)
    \/ \E key \in Keys : Expire(key)

AssemblerSpec == Init /\ [][AssemblerNext]_vars

-----------------------------------------------------------------------------
(* normalize_mac: a MAC address written with colons, with hyphens or without
   separators, in any case, becomes lowercase hex octets separated by single
   colons; everything else is an InvalidMacError. *)

\* str.upper()
UpperChar(ch) ==
    IF \E i \in 1..26 : LowerCase[i] = ch
    THEN UpperCase[CHOOSE i \in 1..26 : LowerCase[i] = ch]
    ELSE ch

HexDigits == Range(Digits) \cup {"a", "b", "c", "d", "e", "f"}

\* Twelve characters written as six pairs with sep between them.
Separated(h, sep) == [i \in 1..17 |-> IF i % 3 = 0 THEN sep ELSE h[i - (i \div 3)]]

\* s is six pairs of characters with sep between them.
InForm(s, sep) ==
    /\ Len(s) = 17
    /\ \A i \in 1..17 : (s[i] = sep) <=> (i % 3 = 0)

\* s without its separators.
Octets(s) == SelectSeq(s, LAMBDA ch : ch \notin {":", "-"})

\* A faulty variant of Canonical: the case is kept.
CanonicalKeepCase(h) == Separated(h, ":")

\* The canonical form of twelve hex digits.
Canonical(h) == Separated(Lower(h), ":")

\* normalize_mac(s): the canonical form, or the error raised.
NormalizeMac(s) ==
    LET h == Octets(s)
    IN  IF /\ Len(s) = 12 \/ InForm(s, ":") \/ InForm(s, "-")
           /\ Len(h) = 12
           /\ \A i \in 1..Len(h) : LowerChar(h[i]) \in HexDigits
        THEN [err |-> "ok", value |-> Canonical(h)]
        ELSE [err |-> "InvalidMacError", value |-> <<>>]

\* Addresses as twelve hex digits.
Addresses == {<<"d", "8", "1", "3", "2", "a", "2", "5", "2", "f", "a", "c">>, <<"a", "a", "b", "b", "c", "c", "d", "d", "e", "e", "f", "f">>, <<"0", "1", "2", "3", "4", "5", "6", "7", "8", "9", "a", "b">>}

\* An address in lower case, in capitals, or with every other letter a capital.
Cased(h, casing) ==
    IF casing = "lower" THEN h
    ELSE IF casing = "upper" THEN [i \in 1..Len(h) |-> UpperChar(h[i])]
    ELSE [i \in 1..Len(h) |-> IF i % 2 = 1 THEN UpperChar(h[i]) ELSE h[i]]

Casings == {"lower", "upper", "mixed"}
Forms == {":", "-", "none"}

\* An address spelled in one of the three forms.
Spell(addr, form, casing) ==
    IF form = "none" THEN Cased(addr, casing) ELSE Separated(Cased(addr, casing), form)

Spellings == {Spell(a, f, c) : a \in Addresses, f \in Forms, c \in Casings}

\* Strings that are no MAC address: a spelling cut short, one with a digit too
\* many, one with a letter that is no hex digit, three octets, no hex digits
\* at all, the empty string; and one with both separators.
NoAddresses ==
    {SubSeq(s, 1, Len(s) - 1) : s \in Spellings}
    \cup {s \o <<"0">> : s \in Spellings}
    \cup {[s EXCEPT ![1] = "g"] : s \in Spellings}
    \cup {<<"A", "A", ":", "B", "B", ":", "C", "C">>, <<"G", "G", ":", "H", "H", ":", "I", "I", ":", "J", "J", ":", "K", "K", ":", "L", "L">>, <<>>, <<"a", "a", ":", "b", "b", "-", "c", "c", ":", "d", "d", "-", "e", "e", ":", "f", "f">>}

NormInit ==
    /\ Created
    /\ fx = NoFx
    /\ norm \in {[NoNorm EXCEPT !.input = s] : s \in Spellings \cup NoAddresses}
    /\ asm = NoAsm
    /\ mux = NoMux

NormFrame == UNCHANGED <<dvars, state_callbacks, notify, poller, now, fx, asm, mux>>

\* normalize_mac(input)
Normalize ==
    /\ norm.applied = 0
    /\ LET r == NormalizeMac(norm.input)
       IN  norm' = [norm EXCEPT !.result = r.value, !.err = r.err, !.applied = 1]
    /\ NormFrame

\* normalize_mac(normalize_mac(input))
NormalizeAgain ==
    /\ norm.applied = 1
    /\ norm.err = "ok"
    /\ LET r == NormalizeMac(norm.result)
       IN  norm' = [norm EXCEPT !.again = r.value, !.err = r.err, !.applied = 2]
    /\ NormFrame

NormNext == Normalize \/ NormalizeAgain

NormSpec == NormInit /\ [][NormNext]_vars

-----------------------------------------------------------------------------
(* Vocabulary of the properties. *)

Pending == {c \in Callers : gpc[c] # "idle"}

CommandOps == {"turn_on", "turn_off", "set_brightness", "set_mode", "set_effect"}
PaletteOps == {"set_hue", "set_saturation"}

\* The step is the invocation of a command (not the resumption of one in flight).
CommandCalled(ops) == ev'.op \in ops /\ cmd.pc = "idle" /\ budget' = budget - 1

\* The step is the invocation of get_state by some caller.
GetStateCalled == ev'.op = "get_state" /\ budget' = budget - 1

\* The value the state holds for a property, as the snapshot encodes it.
StateValue(st, p) ==
    CASE p = "is_displaying" -> IF st.is_on THEN 1 ELSE 0
      [] p = "brightness" -> st.brightness
      [] p = "mode" -> st.mode
      [] p = "active_scene_index" -> st.active_scene_index
      [] p = "manual_animation_index" -> st.active_manual_animation_index
      [] p = "auto_hue" -> st.palette["auto"].hue
      [] p = "auto_saturation" -> st.palette["auto"].saturation
      [] p = "scene_hue" -> st.palette["scene"].hue
      [] p = "scene_saturation" -> st.palette["scene"].saturation
      [] p = "manual_hue" -> st.palette["manual"].hue
      [] p = "manual_saturation" -> st.palette["manual"].saturation

\* The state holds every value the snapshot carries.
HoldsSnapshot(st, fb) ==
    /\ fb.serial # None => st.serial_number = fb.serial
    /\ \A p \in Props : fb.el[p].present => StateValue(st, p) = fb.el[p].value

\* The routes a command of the sources needs before it sends anything.
RequiredRoutes(op, arg) ==
    CASE op \in {"turn_on", "turn_off"} -> {"is_displaying"}
      [] op = "set_brightness" -> {"brightness"}
      [] op = "set_mode" -> {"mode"}
      [] op = "set_effect" ->
            IF arg = EffectAuto THEN {"mode"}
            ELSE IF arg \in {ScenePrefix \o <<"1">>, ScenePrefix \o <<"0", "1">>}
                 THEN {"mode", "active_scene_index"}
            ELSE IF arg \in {ManualPrefix \o <<"3">>} THEN {"mode", "manual_animation_index"}
            ELSE {}

-----------------------------------------------------------------------------
(* C1: every snapshot a controller adopts carries the identity serial; a    *)
(* reassembled snapshot with another serial is dropped: the state and the   *)
(* routes stay as they were and no get_state waiter is resolved by it.      *)
C1_MismatchedSnapshotDropped ==
    [][(ev'.op = "snapshot" /\ budget' = budget - 1 /\ ev'.arg.decodable
            /\ ev'.arg.serial \notin {None, IdentitySerial})
        => (state' = state /\ routes' = routes /\ evset' = evset)]_vars

(* C2: when a snapshot is applied, the state holds its values and, in the   *)
(* same step, every get_state call pending on the device is woken; a call   *)
(* returns a state only after a snapshot was applied since it registered    *)
(* its signal, and no call that was pending at an applied snapshot runs     *)
(* into its timeout.                                                        *)
C2_SnapshotWakesEveryWaiter ==
    [][/\ (ev'.op = "snapshot" /\ ev'.err = "ok" /\ budget' = budget - 1)
            => (HoldsSnapshot(state', ev'.arg) /\ Pending \subseteq evset')
       /\ \A c \in Callers :
            (ev'.op = "get_state" /\ gpc[c] = "wait" /\ gpc'[c] = "idle") =>
                /\ ev'.err = "ok" => c \in applied_since
                /\ ev'.err = "Timeout" => c \notin applied_since
      ]_vars

C2_Witness ==
    /\ ev.op = "snapshot" /\ ev.err = "ok"
    /\ Pending = Callers
    /\ evset = Callers

(* C3: the outstanding wait-signals are exactly those of the get_state      *)
(* calls in progress, each once: a call that exits, by whatever path, has   *)
(* removed its signal, and with no call in progress the set is empty.       *)
C3_WaitSignalsAreThoseInProgress ==
    /\ Range(state_events) = Pending
    /\ Len(state_events) = Cardinality(Pending)

C3_Witness ==
    /\ ev.op = "get_state" /\ ev.err \in {"Cancelled", "Timeout", "SendError"}
    /\ Len(state_events) = 1
    /\ gpc[ev.arg] = "idle"

(* C4: get_state always terminates: every call that emitted its request     *)
(* eventually exits, and it exits with TimeoutError only when its timeout   *)
(* has elapsed with no snapshot applied since the request.                  *)
C4_GetStateTerminates ==
    /\ \A c \in Callers : (gpc[c] # "idle") ~> (gpc[c] = "idle")
    /\ [][\A c \in Callers :
            (ev'.op = "get_state" /\ ev'.err = "Timeout" /\ gpc[c] = "wait" /\ gpc'[c] = "idle")
                => (left[c] = 0 /\ c \notin applied_since)]_vars

C4_Witness ==
    /\ ev.op = "get_state" /\ ev.err = "Timeout"
    /\ budget = 0

(* C5: get_state, turn_on, turn_off, set_brightness, set_mode and           *)
(* set_effect invoked on a device that is not registered fail with the      *)
(* not-registered error, send no datagram and leave the state unchanged.    *)
C5_CommandsNeedRegistration ==
    [][((CommandCalled(CommandOps) \/ GetStateCalled) /\ ~registered)
        => (ev'.err = "NotRegistered" /\ out' = <<>> /\ state' = state /\ routes' = routes
            /\ state_events' = state_events)]_vars

C5_Witness ==
    /\ ev.op = "turn_on" /\ ev.err = "NotRegistered"
    /\ routes["is_displaying"] # None
    /\ ~registered

(* C6: register on a registered device fails and changes nothing (the       *)
(* handler count and the registration stay as they were); unregister on a   *)
(* device that is not registered is a no-op.                                *)
C6_RegisterGuarded ==
    [][/\ (ev'.op = "register" /\ budget' = budget - 1 /\ registered)
            => (ev'.err = "AlreadyRegistered" /\ out' = <<>>
                /\ UNCHANGED <<handlers, registered, regpc, listener_running, ip_address,
                               state, routes, state_events, evset>>)
       /\ (ev'.op = "unregister" /\ budget' = budget - 1 /\ ~registered)
            => (ev'.err = "noop" /\ out' = <<>>
                /\ UNCHANGED <<handlers, registered, regpc, listener_running, ip_address,
                               state, routes, state_events, evset>>)
      ]_vars

C6_Witness ==
    /\ ev.op = "register" /\ ev.err = "AlreadyRegistered"
    /\ registered /\ handlers = 1

(* C7: a control command on a registered device that lacks a route it       *)
(* requires fails with the routes-unavailable error and sends nothing; a    *)
(* scene or manual effect requires the mode route and the index route       *)
(* before anything is sent.                                                 *)
C7_MissingRouteFails ==
    [][(CommandCalled(CommandOps) /\ registered
            /\ \E p \in RequiredRoutes(ev'.op, ev'.arg) : routes[p] = None)
        => (ev'.err = "RoutesUnavailable" /\ out' = <<>> /\ state' = state)]_vars

C7_Witness ==
    /\ ev.op = "set_effect" /\ ev.err = "RoutesUnavailable"
    /\ routes["mode"] # None
    /\ routes["active_scene_index"] = None

(* C8: the route of every control datagram sent is a route string that a    *)
(* snapshot received before carried for the property addressed.             *)
C8_RoutesNeverFabricated ==
    \A i \in DOMAIN out :
        out[i].port = DEVICE_CONTROL_PORT => out[i].route \in observed[out[i].prop]

C8_Witness ==
    /\ out # <<>>
    /\ out[1].port = DEVICE_CONTROL_PORT
    /\ out[1].prop = "active_scene_index"
    /\ Cardinality(observed["mode"]) = 2

(* C9: the route the controller holds for each property is the one carried  *)
(* by the latest successfully applied snapshot, never one retained from an  *)
(* older snapshot.                                                          *)
C9_RoutesFromLatestSnapshot ==
    latest.applied => \A p \in Props : routes[p] = latest.routes[p]

(* C10: set_brightness, set_hue and set_saturation with an argument outside *)
(* [0, 1] fail with InvalidRangeError and send no datagram.                 *)
C10_OutOfRangeFailsInvalidRange ==
    [][(CommandCalled({"set_brightness"} \cup PaletteOps) /\ ~InRange(ev'.arg))
        => (ev'.err = "InvalidRange" /\ out' = <<>>)]_vars

(* C10, by precedence: such a call fails, sends no datagram, leaves state   *)
(* unchanged; the failure is InvalidRangeError when the device is           *)
(* registered and the route of the property is known, the not-registered    *)
(* error on an unregistered device, and for set_brightness on a registered  *)
(* device without a brightness route the routes-unavailable error.          *)
C10_OutOfRangeFails ==
    [][(CommandCalled({"set_brightness"} \cup PaletteOps) /\ ~InRange(ev'.arg))
        => /\ ev'.err \in {"NotRegistered", "RoutesUnavailable", "InvalidRange"}
           /\ out' = <<>>
           /\ state' = state
           /\ cmd' = cmd
           /\ ~registered => ev'.err = "NotRegistered"
           /\ (registered /\ ev'.op = "set_brightness" /\ routes["brightness"] = None)
                => ev'.err = "RoutesUnavailable"
           /\ (registered /\ ev'.op = "set_brightness" /\ routes["brightness"] # None)
                => ev'.err = "InvalidRange"
           /\ (registered /\ ev'.op = "set_hue" /\ routes[PaletteProp(state.mode, "hue")] # None)
                => ev'.err = "InvalidRange"
           /\ (registered /\ ev'.op = "set_saturation"
                    /\ routes[PaletteProp(state.mode, "saturation")] # None)
                => ev'.err = "InvalidRange"]_vars

C10_Witness ==
    /\ ev.op = "set_brightness" /\ ev.err = "InvalidRange"
    /\ ev.arg = 1001
    /\ out = <<>>

\* r is x rounded to two decimal places: a whole number of hundredths, the
\* nearest to x (either neighbour when x lies half-way).
RoundedTo2(x, r) == r % 10 = 0 /\ r - x <= 5 /\ x - r <= 5

(* C11: set_brightness(b) with b in [0, 1], 0.0 and 1.0 included, on a      *)
(* registered device with a known brightness route and a working socket is  *)
(* accepted and sends b rounded to two decimal places; when it completes    *)
(* the state holds that same rounded value, which is b itself when b was    *)
(* already rounded.                                                         *)
C11_BrightnessReadBack ==
    [][/\ (CommandCalled({"set_brightness"}) /\ InRange(ev'.arg) /\ registered
              /\ routes["brightness"] # None /\ listener_running
              /\ ev'.err # "SendError")
            => /\ ev'.err = "pending"
               /\ Len(out') = 1
               /\ out'[1].params[1].type = "f"
               /\ RoundedTo2(ev'.arg, out'[1].params[1].value)
               /\ out'[1].params[1].value = Round2(ev'.arg)
       /\ (cmd.pc = "sent" /\ cmd.op = "set_brightness" /\ cmd'.pc = "idle")
            => /\ ev'.err = "ok"
               /\ RoundedTo2(cmd.arg, state'.brightness)
               /\ state'.brightness = Round2(cmd.arg)
               /\ cmd.arg % 10 = 0 => state'.brightness = cmd.arg
      ]_vars

C11_Witness ==
    /\ ev.op = "set_brightness" /\ ev.err = "ok"
    /\ ev.arg = 125
    /\ state.brightness = 120

\* The effect of a set_effect argument that names a scene or a manual animation.
IndexedEffect(arg) == ParseEffect(arg).kind \in {"scene", "manual"}
TargetMode(arg) == IF ParseEffect(arg).kind = "scene" THEN SCENE ELSE MANUAL
TargetIndexProp(arg) ==
    IF ParseEffect(arg).kind = "scene" THEN "active_scene_index" ELSE "manual_animation_index"

\* The one datagram a step sends: to the control port, on the route held for
\* property p, with the integer parameters [v, 0].
SendsOnly(o, p, v) ==
    /\ Len(o) = 1
    /\ o[1].port = DEVICE_CONTROL_PORT
    /\ o[1].route = routes[p]
    /\ o[1].params = <<IntParam(v), IntParam(0)>>

(* C12: set_effect("scene:<i>") / set_effect("manual:<i>") accepted on a    *)
(* registered device with the routes known sends, when the state's mode is  *)
(* not the target mode, first one datagram on the mode route with [mode, 0] *)
(* and then, the mode in the state now being the target mode, one on the    *)
(* index route with [i, 0]; when the mode already is the target mode the    *)
(* index datagram is the only one.  The completing step sends nothing and   *)
(* sets the index i in the state.                                           *)
C12_ModeThenIndex ==
    [][/\ (CommandCalled({"set_effect"}) /\ ev'.err = "pending" /\ IndexedEffect(ev'.arg))
            => IF state.mode # TargetMode(ev'.arg)
               THEN /\ SendsOnly(out', "mode", TargetMode(ev'.arg))
                    /\ cmd'.pc = "mode_sent"
               ELSE /\ SendsOnly(out', TargetIndexProp(ev'.arg), ParseEffect(ev'.arg).index)
                    /\ cmd'.pc = "sent"
       /\ (cmd.pc = "mode_sent" /\ cmd'.pc # cmd.pc)
            => /\ state'.mode = TargetMode(cmd.arg)
               /\ ev'.err = "pending" =>
                    /\ SendsOnly(out', TargetIndexProp(cmd.arg), ParseEffect(cmd.arg).index)
                    /\ cmd'.pc = "sent"
       /\ (cmd.pc = "sent" /\ cmd.op = "set_effect" /\ IndexedEffect(cmd.arg) /\ cmd'.pc = "idle")
            => /\ out' = <<>>
               /\ ev'.err = "ok"
               /\ StateValue(state', TargetIndexProp(cmd.arg)) = ParseEffect(cmd.arg).index
               /\ state'.mode = state.mode
      ]_vars

C12_Witness ==
    /\ cmd.pc = "mode_sent" /\ cmd.arg = ManualPrefix \o <<"3">>
    /\ state.mode = SCENE
    /\ Len(out) = 1 /\ out[1].prop = "mode"
    /\ out[1].params = <<IntParam(MANUAL), IntParam(0)>>

\* An index as the effect list writes it: decimal digits, no sign, no leading zero.
CanonicalIndex(s) ==
    /\ s # <<>>
    /\ \A i \in DOMAIN s : IsDigit(s[i])
    /\ Len(s) > 1 => s[1] # "0"

\* The ids the effect list publishes: "auto", "scene:<index>", "manual:<index>".
ValidEffectId(e) ==
    \/ e = EffectAuto
    \/ StartsWith(e, ScenePrefix) /\ CanonicalIndex(SubSeq(e, 7, Len(e)))
    \/ StartsWith(e, ManualPrefix) /\ CanonicalIndex(SubSeq(e, 8, Len(e)))

(* C13: when set_effect(e) with a valid effect id e completes and no        *)
(* snapshot was processed while the call was in progress, the state's       *)
(* current_effect_id is e.                                                  *)
C13_EffectRoundTrip ==
    [][(cmd.pc = "sent" /\ cmd.op = "set_effect" /\ cmd'.pc = "idle"
            /\ ValidEffectId(cmd.arg) /\ cmd.clean)
        => (ev'.err = "ok" /\ CurrentEffectId(state') = cmd.arg)]_vars

C13_Witness ==
    /\ ev.op = "set_effect" /\ ev.err = "ok"
    /\ ev.arg = ManualPrefix \o <<"3">>
    /\ CurrentEffectId(state) = ManualPrefix \o <<"3">>
    /\ cmd.pc = "idle"

\* The text of an integer: an optional sign and at least one digit.
IntegerText(s) ==
    LET body == IF s # <<>> /\ s[1] \in {"-", "+"} THEN Tail(s) ELSE s
    IN  body # <<>> /\ \A i \in DOMAIN body : IsDigit(body[i])

\* "auto", "scene:<integer>" or "manual:<integer>"
RecognizedEffectId(e) ==
    \/ e = EffectAuto
    \/ StartsWith(e, ScenePrefix) /\ IntegerText(SubSeq(e, 7, Len(e)))
    \/ StartsWith(e, ManualPrefix) /\ IntegerText(SubSeq(e, 8, Len(e)))

(* C14: set_effect with an unrecognized effect id fails with               *)
(* UnknownEffectError, sends no datagram and leaves the state unchanged;   *)
(* UnknownEffectError is raised only for an unrecognized id.               *)
C14_UnknownEffectFails ==
    [][CommandCalled({"set_effect"}) =>
        /\ ~RecognizedEffectId(ev'.arg)
             => (ev'.err = "UnknownEffect" /\ out' = <<>> /\ state' = state)
        /\ ev'.err = "UnknownEffect" => ~RecognizedEffectId(ev'.arg)]_vars

(* C14, by precedence: set_effect with an unrecognized effect id always    *)
(* fails, sends no datagram and leaves the state unchanged; the failure is *)
(* UnknownEffectError on a registered device and the not-registered error  *)
(* otherwise.  UnknownEffectError is raised only for an unrecognized id,   *)
(* at the call and at every later step of a set_effect in progress.        *)
C14_UnknownEffectFailsRegistered ==
    [][/\ CommandCalled({"set_effect"}) =>
            /\ ~RecognizedEffectId(ev'.arg)
                 => /\ ev'.err = IF registered THEN "UnknownEffect" ELSE "NotRegistered"
                    /\ out' = <<>>
                    /\ state' = state
                    /\ cmd' = cmd
            /\ ev'.err = "UnknownEffect" => ~RecognizedEffectId(ev'.arg)
       /\ (cmd.pc # "idle" /\ cmd'.pc # cmd.pc) => ev'.err # "UnknownEffect"
      ]_vars

C14_Witness ==
    /\ ev.op = "set_effect" /\ ev.err = "UnknownEffect"
    /\ ev.arg = ScenePrefix \o <<"x">>
    /\ registered
    /\ routes["mode"] # None
    /\ out = <<>>

(* C15: every /getState datagram goes to the command port, every control    *)
(* datagram (power, brightness, mode, scene index, animation index) to the  *)
(* control port, the two ports differ, and every datagram is addressed to   *)
(* the IP the controller holds when it is sent.                             *)
C15_CommandAddressing ==
    /\ DEVICE_COMMAND_PORT # DEVICE_CONTROL_PORT
    /\ \A i \in DOMAIN out :
        /\ out[i].ip = ip_address
        /\ out[i].route = GET_STATE_ROUTE <=> out[i].prop = None
        /\ out[i].prop = None => out[i].port = DEVICE_COMMAND_PORT
        /\ out[i].prop \in EngineProps => out[i].port = DEVICE_CONTROL_PORT

C15_Witness ==
    /\ Len(out) = 1
    /\ out[1].prop = "manual_animation_index"
    /\ out[1].port = DEVICE_CONTROL_PORT
    /\ out[1].ip = OtherIp
    /\ ip_address = OtherIp

(* C16: turn_on accepted on a registered device sends exactly one datagram, *)
(* on the power route, with the integer parameters [1, 0], and turn_off one *)
(* with [0, 0]; the completing step sends nothing; no datagram ever carries *)
(* an OSC true/false tag.                                                   *)
C16_PowerAsIntegerWithPad ==
    [][/\ (CommandCalled({"turn_on", "turn_off"}) /\ ev'.err = "pending")
            => /\ SendsOnly(out', "is_displaying", IF ev'.op = "turn_on" THEN 1 ELSE 0)
               /\ cmd'.pc = "sent"
       /\ (cmd.pc = "sent" /\ cmd.op \in {"turn_on", "turn_off"} /\ cmd'.pc # cmd.pc)
            => (out' = <<>> /\ cmd'.pc = "idle")
       /\ \A i \in DOMAIN out' : \A j \in DOMAIN out'[i].params :
            out'[i].params[j].type \notin {"T", "F"}
      ]_vars

C16_Witness ==
    /\ cmd.pc = "sent" /\ cmd.op = "turn_off"
    /\ Len(out) = 1
    /\ out[1].params = <<IntParam(0), IntParam(0)>>
    /\ out[1].route = routes["is_displaying"]

\* The state reports what command op with argument arg asked for.
ReportsCommanded(st, op, arg) ==
    CASE op = "turn_on" -> st.is_on = TRUE
      [] op = "turn_off" -> st.is_on = FALSE
      [] op = "set_brightness" -> RoundedTo2(arg, st.brightness)
      [] op = "set_mode" -> st.mode = arg
      [] op = "set_effect" ->
            IF arg = EffectAuto THEN st.mode = AUTO
            ELSE StateValue(st, TargetIndexProp(arg)) = ParseEffect(arg).index
      [] OTHER -> TRUE

(* C17: when turn_on, turn_off, set_brightness, set_mode or set_effect has  *)
(* sent its datagram, the step that resumes it makes the state report the   *)
(* commanded value with no snapshot needed; a call that fails at its checks *)
(* or at its send leaves the state unchanged, and a failed send of the      *)
(* index after the mode was sent leaves the index unchanged; a snapshot     *)
(* applied later puts its own values in place of the optimistic ones.       *)
C17_OptimisticUpdate ==
    [][/\ (cmd.pc = "sent" /\ cmd.op \in CommandOps /\ cmd'.pc = "idle")
            => (ev'.err = "ok" /\ ReportsCommanded(state', cmd.op, cmd.arg))
       /\ (cmd.pc = "mode_sent" /\ cmd'.pc # cmd.pc)
            => /\ state'.mode = TargetMode(cmd.arg)
               /\ StateValue(state', TargetIndexProp(cmd.arg))
                    = StateValue(state, TargetIndexProp(cmd.arg))
       /\ (CommandCalled(CommandOps) /\ ev'.err # "pending")
            => (state' = state /\ cmd'.pc = "idle")
       /\ (CommandCalled(CommandOps) /\ ev'.err = "pending") => state' = state
       /\ (ev'.op = "snapshot" /\ ev'.err = "ok" /\ budget' = budget - 1)
            => \A p \in EngineProps :
                 ev'.arg.el[p].present => StateValue(state', p) = ev'.arg.el[p].value
      ]_vars

C17_Witness ==
    /\ ev.op = "set_mode" /\ ev.err = "ok" /\ ev.arg = AUTO
    /\ state.mode = AUTO
    /\ latest.applied
    /\ cmd.pc = "idle"

\* The step is resolve_ip receiving the answer of the neighbour table.
ArpAnswered == rs.pc = "arp" /\ ev'.op = "resolve_ip" /\ ev'.err # "Cancelled"

\* The step is resolve_ip ending, and how.
ResolveEnds(err) ==
    rs.pc # "idle" /\ rs'.pc = "idle" /\ ev'.op = "resolve_ip" /\ ev'.err = err

(* C18: resolve_ip adopts the address the neighbour table holds for the     *)
(* identity MAC only when the device answering at that address has the      *)
(* identity serial; when the serial differs the address is not adopted and  *)
(* resolve_ip goes on to find_by_serial, adopting the address it returns.   *)
C18_ArpAddressVerified ==
    [][/\ (ArpAnswered /\ ev'.arg.ip # None) =>
            IF ev'.arg.serial = IdentitySerial
            THEN ip_address' = ev'.arg.ip /\ ev'.err = "True"
            ELSE ip_address' = ip_address /\ rs'.pc = "discovery"
       /\ (ResolveEnds("True") /\ ev'.arg.via = "discovery") => ip_address' = ev'.arg.ip
      ]_vars

(* C19: when resolve_ip succeeds the controller's IP is the adopted IP and  *)
(* the handler registration is as it was; every datagram goes to the IP     *)
(* held; fragments are claimed for the device exactly when they come from   *)
(* the IP held, so those from a prior IP are left alone.                    *)
C19_HandlerFollowsAdoptedIp ==
    [][/\ ResolveEnds("True")
            => /\ ip_address' = ev'.arg.ip
               /\ UNCHANGED <<handlers, registered>>
       /\ \A i \in DOMAIN out' : out'[i].ip = ip_address'
       /\ (ev'.op = "snapshot" /\ budget' = budget - 1) => ev'.arg.source = ip_address
       /\ (ev'.op = "packet" /\ budget' = budget - 1)
            => /\ ev'.arg # ip_address
               /\ UNCHANGED <<state, routes, evset, state_events>>
      ]_vars

C19_Witness ==
    /\ ip_address = OtherIp
    /\ rs.pc = "idle" /\ rs.before = InitialIp
    /\ ev.op = "packet" /\ ev.arg = InitialIp

(* C20: adoption is the atomic last step of resolve_ip: a call that is      *)
(* cancelled while suspended, or that returns failure, leaves the command   *)
(* target and the state's ip field as they were, the target being the one   *)
(* held when the call began; every step either leaves the command target    *)
(* alone or is a successful resolve_ip setting target and state field to    *)
(* the same adopted IP.                                                     *)
C20_AdoptionAtomic ==
    [][/\ (ResolveEnds("Cancelled") \/ ResolveEnds("False"))
            => /\ ip_address' = rs.before
               /\ ip_address' = ip_address
               /\ state' = state
       /\ (rs.pc # "idle" /\ rs'.pc # "idle" /\ ev'.op = "resolve_ip")
            => (ip_address' = rs.before /\ state' = state)
       /\ ip_address' # ip_address
            => (ResolveEnds("True") /\ state'.ip_address = ip_address')
      ]_vars

C20_Witness ==
    /\ ev.op = "resolve_ip" /\ ev.err = "Cancelled"
    /\ rs.pc = "idle" /\ rs.before = OtherIp
    /\ ip_address = OtherIp
    /\ state.ip_address = OtherIp

-----------------------------------------------------------------------------
(* C21: of two successive resolve_ip calls on one controller with the MAC
   absent from the neighbour table, the first takes the broadcast path and the
   second skips it and returns False without broadcasting.  resolve_ip reads
   no clock, so the time between the two calls plays no part in what it does. *)
C21_SecondCallSkipsBroadcast ==
    [][(/\ rs.broadcast
        /\ ArpAnswered
        /\ ev'.arg.ip = None)
          => (rs'.pc = "idle" /\ ev'.err = "False")]_vars

-----------------------------------------------------------------------------
(* Vocabulary of the poller's properties. *)

\* _poll_loop has called _resolve_device in this step.
ResolutionInvoked == "resolve" \in poller'.step /\ poller'.ret = "loop"

\* The cycle that failed by _poll_once returning False ends in this step
\* without a successful resolution.
FailedCycleEnds ==
    /\ poller'.pc = "sleep"
    /\ poller'.ret # "start"
    /\ \/ "poll_failed" \in poller'.step
       \/ "unresolved" \in poller'.step

\* /getState is among the datagrams the step handed to the socket.
SendsGetState == \E i \in 1..Len(poller'.sent) : poller'.sent[i].route = GET_STATE_ROUTE

(* C22: the cooldown does not restrict the ARP path: every resolution attempt,
   also one made inside the cooldown window, looks the MAC up in the
   neighbour table. *)
C22_ArpPathNotCooledDown ==
    [][("resolve" \in poller'.step) => ("arp" \in poller'.step)]_vars

(* C23: the poll loop invokes the resolution only when the count of
   consecutive failures is at least N, it invokes it in the step in which the
   count reaches N, and a successful poll resets the count to 0. *)
C23_ResolveAfterNFailures ==
    [][/\ ResolutionInvoked => poller'.consecutive_failures >= MAX_FAILED_POLLS
       /\ (/\ poller.consecutive_failures < MAX_FAILED_POLLS
           /\ poller'.consecutive_failures >= MAX_FAILED_POLLS) => ResolutionInvoked
       /\ ("poll_ok" \in poller'.step) => poller'.consecutive_failures = 0]_vars

\* C23 without the cycles in which _poll_once raised.
C23_ResolveAfterNFailedReturns ==
    [][/\ ResolutionInvoked => poller'.consecutive_failures >= MAX_FAILED_POLLS
       /\ (/\ poller.consecutive_failures < MAX_FAILED_POLLS
           /\ poller'.consecutive_failures >= MAX_FAILED_POLLS
           /\ "poll_raised" \notin poller'.step) => ResolutionInvoked
       /\ ("poll_ok" \in poller'.step) => poller'.consecutive_failures = 0]_vars

(* C24: when the resolution called from the failure loop succeeds, the cycle
   ends with the failure counter at 0 and the task sleeping for the base poll
   interval. *)
C24_ResolutionResetsInterval ==
    [][("resolved" \in poller'.step /\ poller'.ret = "loop" /\ poller'.pc = "sleep")
          => /\ poller'.consecutive_failures = 0
             /\ poller'.current_backoff = POLL_INTERVAL]_vars

(* C25: the poll interval is never above the cap (nor below the base); a
   cycle whose poll failed and that saw no successful resolution leaves the task
   sleeping for min(2 * interval, cap); the interval never decreases in a step
   that is neither a successful poll nor a successful resolution; a successful
   poll returns it to the base interval. *)
C25_BackoffDoublesToCap ==
    /\ [](poller.current_backoff \in POLL_INTERVAL..MAX_BACKOFF)
    /\ [][/\ FailedCycleEnds
             => poller'.current_backoff = Min(2 * poller.current_backoff, MAX_BACKOFF)
          /\ (poller'.step \cap {"poll_ok", "resolved"} = {})
             => poller'.current_backoff >= poller.current_backoff
          /\ ("poll_ok" \in poller'.step)
             => poller'.current_backoff = POLL_INTERVAL]_vars

\* The plateau: after seven failed polls in a row the task sleeps for the cap again.
C25_Witness ==
    /\ poller.pc = "sleep"
    /\ poller.consecutive_failures >= 7
    /\ poller.current_backoff = MAX_BACKOFF
    /\ "poll_failed" \in poller.step

(* C26: DHCP move: the failed poll that brings the count of consecutive
   failures to three or more makes the poller look the MAC up in the neighbour
   table; when the device at the address found answers the verify probe with
   the identity serial the poller holds that address afterwards; and every
   probe goes to the address the poller holds. *)
C26_MoveRecovered ==
    [][/\ ("poll_failed" \in poller'.step
             /\ poller'.consecutive_failures >= MAX_FAILED_POLLS)
          => "arp" \in poller'.step
       /\ (poller.pc = "verify" /\ poller'.pc # "verify" /\ "broadcast" \notin poller'.step)
          => poller'.ip_address = poller.new_ip
       /\ \A i \in 1..Len(poller'.sent) :
             poller'.sent[i].route = DISCOVERY_ROUTE
                => poller'.sent[i].ip = poller'.ip_address]_vars

\* C26 without its first part: what a resolution that is not cooled down does.
C26_AdoptsVerifiedAddress ==
    [][/\ (poller.pc = "verify" /\ poller'.pc # "verify" /\ "broadcast" \notin poller'.step)
          => poller'.ip_address = poller.new_ip
       /\ \A i \in 1..Len(poller'.sent) :
             /\ poller'.sent[i].route = DISCOVERY_ROUTE
                  => poller'.sent[i].ip = poller'.ip_address
             /\ poller'.sent[i].route = GET_STATE_ROUTE
                  => poller'.sent[i].ip = poller'.ip_address]_vars

(* C27: a poll reply whose state_counter advanced since the previous
   observation, or that is the first observation, makes the poller call
   get_state (after creating and registering the device object when there is
   none), which hands /getState to the socket; a reply whose counter is
   unchanged ends the poll without any datagram; and /getState is handed to
   the socket in no other step of the poller. *)
C27_FetchIffCounterAdvanced ==
    [][/\ (poller.pc = "wait" /\ "reply" \in poller'.step)
          => /\ (poller.state_counter = NoCounter \/ poller'.reply > poller.state_counter)
                  => /\ poller'.state_counter = poller'.reply
                     /\ IF poller.device = None
                        THEN poller'.pc = "register"
                        ELSE poller'.pc = "fetch" /\ SendsGetState
             /\ (poller'.reply = poller.state_counter)
                  => /\ poller'.pc = "sleep"
                     /\ poller'.sent = <<>>
                     /\ "get_state" \notin poller'.step
       /\ (poller.pc = "register" /\ poller'.pc # "register")
          => poller'.pc = "fetch" /\ SendsGetState
       /\ SendsGetState
          => \/ poller.pc = "register"
             \/ /\ poller.pc = "wait"
                /\ poller'.reply # poller.state_counter]_vars

\* A reply with the counter already seen, after a fetch: nothing is sent.
C27_Witness ==
    /\ poller.pc = "sleep"
    /\ "reply" \in poller.step
    /\ poller.reply = poller.state_counter
    /\ poller.device # None
    /\ poller.sent = <<>>

-----------------------------------------------------------------------------
(* C30: a reassembled payload whose decoding or processing fails is dropped:
   no wait-signal is set and the device's state and control routes are the
   ones it had before the payload arrived. *)
C30_FailedPayloadDropped ==
    [][(budget' < budget /\ ev'.op = "snapshot" /\ ev'.err # "ok")
          => (state' = state /\ routes' = routes /\ evset' = evset)]_vars

\* C30 for payloads that cannot be decoded at all.
C30_UndecodablePayloadDropped ==
    [][(budget' < budget /\ ev'.op = "snapshot" /\ ev'.err = "DecodeError")
          => (state' = state /\ routes' = routes /\ evset' = evset)]_vars

-----------------------------------------------------------------------------
(* Vocabulary of the subscribers' properties. *)

\* A payload is applied in this step.
SnapshotApplied == budget' < budget /\ ev'.op = "snapshot" /\ ev'.err = "ok"

\* The notification run by task t ends in this step.
NotificationEnds(t) ==
    /\ notify'[t].pc = "idle"
    /\ \/ notify[t].pc = "awaiting"
       \/ notify[t].pc = "idle" /\ notify'[t] # notify[t] /\ SnapshotApplied

\* _state_lock is held just before position i of a step's events.
LockHeldAt(trace, i) ==
    \E j \in 1..(i - 1) :
        /\ trace[j].e = "acquire"
        /\ \A k \in (j + 1)..(i - 1) : trace[k].e # "release"

(* C28: a subscriber that raises does not affect the others: in a notification
   during which the subscriptions did not change, the callbacks invoked so far
   are the first subscribers in subscription order, each once, and when it
   ends all of them were invoked, whichever of them raised; a callback that
   finishes or raises leaves the state and the routes of the applied snapshot
   as they are; and every payload that is applied afterwards is again handed
   to the subscribers, from the first. *)
C28_BadSubscriberContained ==
    [][/\ \A t \in NotifyTasks :
            /\ (NotificationEnds(t) /\ notify'[t].clean)
                  => notify'[t].log = state_callbacks'
            /\ (notify'[t].pc = "awaiting" /\ notify'[t].clean)
                  => notify'[t].log = SubSeq(state_callbacks', 1, notify'[t].index)
            /\ (notify[t].pc = "awaiting" /\ notify'[t] # notify[t] /\ budget' = budget)
                  => (state' = state /\ routes' = routes)
       /\ SnapshotApplied
            => \E t \in NotifyTasks :
                  /\ notify[t].pc = "idle"
                  /\ notify'[t].trace # <<>>
                  /\ state_callbacks # <<>>
                        => /\ notify'[t].log # <<>>
                           /\ notify'[t].log[1] = state_callbacks[1]]_vars

\* Two snapshots were notified to the plain function that raises and then to
\* the coroutine function; in one notification the coroutine raised as well.
C28_Witness ==
    /\ state_callbacks = <<"bad", "coro">>
    /\ \A t \in NotifyTasks :
          /\ notify[t].pc = "idle"
          /\ notify[t].clean
          /\ notify[t].log = state_callbacks
    /\ \E t \in NotifyTasks : notify[t].raised

(* C29: the callbacks are invoked after _state_lock has been released, the
   lock is held at the end of no step, and the callbacks of one notification
   run one after the other: no callback is invoked while another one of the
   same notification has been started and has not finished. *)
C29_CallbacksSequentialOutsideLock ==
    \A t \in NotifyTasks :
        /\ ~notify[t].overlap
        /\ Cardinality(notify[t].running) <= 1
        /\ \A i \in 1..Len(notify[t].trace) :
              notify[t].trace[i].e = "call" => ~LockHeldAt(notify[t].trace, i)
        /\ ~LockHeldAt(notify[t].trace, Len(notify[t].trace) + 1)

\* The coroutine callback is suspended; the plain function subscribed after it
\* has not been called yet, and the step that started the coroutine had
\* released the lock before.
C29_Witness ==
    /\ state_callbacks = <<"coro", "bad">>
    /\ \E t \in NotifyTasks :
          /\ notify[t].pc = "awaiting"
          /\ notify[t].running = {"coro"}
          /\ notify[t].log = <<"coro">>
          /\ \E i \in 1..Len(notify[t].trace) : notify[t].trace[i].e = "release"

-----------------------------------------------------------------------------
(* C37: is_registered is true exactly when the device's handler is in the
   listener's handler collection, in every state, those in which register or
   unregister is suspended included. *)
C37_RegisteredIffHandlerPresent == registered <=> handlers > 0

(* C38: of two register() calls that overlap at most one succeeds: a register
   that returns without an error did not find the device registered by another
   call in the meantime, and the handler is in the collection at most once. *)
C38_OverlappingRegisterOneSucceeds ==
    [][(ev'.op = "register" /\ ev'.err = "ok" /\ regpc' # regpc)
          => (~registered /\ handlers' <= 1)]_vars

\* The number of positions of the sequence s that hold x.
Count(x, s) == Cardinality({i \in 1..Len(s) : s[i] = x})

(* C39: when a notification ends, every callback that was subscribed when it
   started has been invoked exactly once, also when callbacks were added or
   removed while it was in progress.  Stated here for the callbacks that are
   still subscribed when the notification ends, which leaves aside whether a
   callback removed on the way is to be invoked. *)
C39_SubscribersAtStartInvokedOnce ==
    [][\A t \in NotifyTasks :
          NotificationEnds(t)
             => \A cb \in Range(notify'[t].start) \cap Range(state_callbacks') :
                    Count(cb, notify'[t].log) = 1]_vars

\* The part of C39 on notifications during which the subscriptions are left
\* alone, and on subscribing twice: no callback is in the list twice.
C39_UndisturbedInvokedOnce ==
    [][/\ \A t \in NotifyTasks :
            (NotificationEnds(t) /\ notify'[t].clean)
               => \A cb \in Range(notify'[t].start) : Count(cb, notify'[t].log) = 1
       /\ \A cb \in Callbacks : Count(cb, state_callbacks') <= 1]_vars

-----------------------------------------------------------------------------
(* C40: the poller loses no state change: a poll that ends after a reply
   without fetching the state does so only when a get_state issued for the
   counter of that reply has returned the state. *)
C40_NoStateChangeLost ==
    [][(poller.pc = "wait" /\ "reply" \in poller'.step /\ poller'.pc = "sleep")
          => poller.fetched = poller'.reply]_vars

\* The part of C40 that holds: a reply with a counter other than the recorded
\* one is followed by get_state within the same poll.
C40_ChangeIsFetched ==
    [][(poller.pc = "wait" /\ "reply" \in poller'.step
          /\ poller'.reply # poller.state_counter)
          => poller'.pc \in {"register", "fetch"}]_vars

-----------------------------------------------------------------------------
(* C31: the properties mac_address and serial_number return the values given
   at creation in every state, whatever the snapshots applied report; the IP
   the commands are sent to is assigned only in a step of resolve_ip or of
   update_ip_from_mac, a snapshot leaves it as it is, and every datagram goes
   to the IP held when it is sent. *)
C31_IdentityImmutable ==
    /\ [](/\ mac_address(IdentityMac, state) = IdentityMac
          /\ serial_number(IdentitySerial, state) = IdentitySerial)
    /\ [][/\ ip_address' # ip_address => ev'.op \in {"resolve_ip", "update_ip_from_mac"}
          /\ (ev'.op = "snapshot" /\ budget' < budget) => ip_address' = ip_address
          /\ \A i \in DOMAIN out' : out'[i].ip = ip_address']_vars

\* A snapshot that reports another serial number, MAC and IP has been
\* applied, and a command is sent afterwards: to the IP of the device.
C31_Witness ==
    /\ state.serial_number = OtherSerial
    /\ state.mac_address = OtherMac
    /\ state.ip_address = OtherIp
    /\ ip_address = InitialIp
    /\ ev.op = "turn_on"
    /\ Len(out) = 1
    /\ out[1].ip = InitialIp

-----------------------------------------------------------------------------
\* Compatibility as the claim states it: an id without a prefix always; with
\* a prefix, its category must be allowed for the model by the table, and be
\* generic when the model is unknown.
CompatibleAsClaimed(id, model) ==
    IF ~Contains(Separator, id) THEN TRUE
    ELSE LET category == Lower(PrefixOf(id)) IN
         IF Contains(Fluora, Lower(model)) THEN category \in {Generic, Fluora, FluoraAudio}
         ELSE IF Contains(Monos, Lower(model)) THEN category \in {Generic, Monos}
         ELSE category = Generic

\* The list read from f is "auto", the scenes in list order, then the
\* compatible manual animations under their positions, in order.
PublishedAsClaimed(f) ==
    LET n == Len(f.scenes)
        shown == {i \in 1..Len(f.manual_animations) :
                     CompatibleAsClaimed(f.manual_animations[i], f.model)}
    IN  /\ Len(f.effects) = 1 + n + Cardinality(shown)
        /\ f.effects[1] = EffectAuto
        /\ \A k \in 1..n : f.effects[1 + k] = ScenePrefix \o FormatInt(f.scenes[k].index)
        /\ \A i \in shown :
              f.effects[1 + n + Cardinality({j \in shown : j <= i})]
                 = ManualPrefix \o FormatInt(i - 1)

(* C32: the effect list is "auto", one "scene:<index>" per scene in list
   order, and one "manual:<position>" for exactly the compatible manual
   animations, where with an unknown model only the category generic is
   compatible. *)
C32_EffectList == fx.read => PublishedAsClaimed(fx)

\* C32 for the states that carry a model name, in the table or not.
C32_EffectListWithModel == (fx.read /\ fx.model # <<>>) => PublishedAsClaimed(fx)

-----------------------------------------------------------------------------
(* C33: a datagram is offered to the handlers in registration order; a
   device's handler claims it, and feeds it to the device's assembler, only if
   the source is the device's current IP and the datagram has the marker 0x46
   and at least 4 bytes; a handler that declines leaves it to the later
   handlers, which all are offered a datagram that nobody claims; the
   datagram is fed to at most one device, the first in registration order
   that can claim it. *)
C33_DispatchToDeviceHandlers ==
    [][mux'.last # mux.last
         => LET l == mux'.last
                hs == mux.handlers
                can == {i \in 1..Len(hs) :
                           /\ mux.ip[hs[i]] = l.source
                           /\ Len(l.data) >= 4
                           /\ l.data[1] = FRAGMENT_MARKER}
            IN  /\ Len(l.fed) <= 1
                /\ l.offered = SubSeq(hs, 1, Len(l.offered))
                /\ IF can = {}
                   THEN l.fed = <<>> /\ l.offered = hs
                   ELSE /\ l.fed = <<hs[Len(l.offered)]>>
                        /\ Len(l.offered) \in can
                        /\ \A i \in can : Len(l.offered) <= i]_vars

\* Both devices are registered and hold the same IP; a fragment from that IP
\* was offered to the first handler only, which fed its device.
C33_Witness ==
    /\ Len(mux.handlers) = 2
    /\ mux.ip["d1"] = mux.ip["d2"]
    /\ mux.last.source = mux.ip["d1"]
    /\ mux.last.offered = <<mux.handlers[1]>>
    /\ mux.last.fed = <<mux.handlers[1]>>

-----------------------------------------------------------------------------
(* Vocabulary of the assembler's properties. *)

\* A fragment arrives in this step.
FragmentArrives == asm'.arrivals = asm.arrivals + 1

\* The group that the arriving fragment finds under its key.
FoundGroup == asm.groups[asm'.last.key]

\* How often the consumer received a payload for the key.
Emissions(key) == Cardinality({i \in DOMAIN asm.emitted : asm.emitted[i].key = key})

\* The lengths of the payloads of the fragments in fs with an index below i.
RECURSIVE Offset(_, _)
Offset(fs, i) ==
    IF i <= 0 THEN 0
    ELSE Offset(fs, i - 1)
         + (IF \E x \in fs : x.index = i - 1
            THEN Len((CHOOSE x \in fs : x.index = i - 1).payload)
            ELSE 0)

\* p consists of the payloads of the fragments fs, each at the place that the
\* fragments of lower index leave to it.
IsConcatenation(p, fs, total) ==
    /\ Len(p) = Offset(fs, total)
    /\ \A x \in fs :
          SubSeq(p, Offset(fs, x.index) + 1, Offset(fs, x.index) + Len(x.payload)) = x.payload

(* C34: whatever fragments arrive under one (source, group id), in any order
   and with any duplicates, the consumer receives at most one payload for
   it. *)
C34_OneEmissionPerKey == \A key \in Keys : Emissions(key) <= 1

(* C34 as it holds: a fragment group, from its first fragment to its
   completion, is emitted at most once, and a fragment whose index the group
   has received already is discarded: the buffered fragments stay as they
   are and nothing is emitted. *)
C34_OneEmissionPerGroup ==
    /\ [](\A i, j \in DOMAIN asm.emitted :
             (asm.emitted[i].key = asm.emitted[j].key
                /\ asm.emitted[i].born = asm.emitted[j].born) => i = j)
    /\ [][(/\ FragmentArrives
           /\ FoundGroup.total = asm'.last.fragment.total
           /\ asm'.last.fragment.index \in Indices(FoundGroup))
             => (asm'.groups = asm.groups /\ asm'.emitted = asm.emitted)]_vars

\* Indices 0 and 1 of a record of three have arrived; a second copy of index 1
\* with other bytes was the latest arrival, and the group holds the first copy.
C34_Witness ==
    /\ asm.last.what = "duplicate"
    /\ asm.last.fragment = Fragment(3, 1, <<9>>)
    /\ asm.groups[asm.last.key].got
         = {[index |-> 0, payload |-> FragmentPayload(0)],
            [index |-> 1, payload |-> FragmentPayload(1)]}

(* C35: a payload is emitted exactly in the step in which an arriving
   fragment makes the received indices of its group equal to 0 .. total-1,
   whatever the order of arrival; it is the concatenation of the group's
   fragments in ascending index, and for total = 1 it is the payload of the
   single fragment. *)
C35_EmissionOnCompleteness ==
    [][LET f == asm'.last.fragment
           completes == /\ FragmentArrives
                        /\ FoundGroup.total \in {0, f.total}
                        /\ f.index \notin Indices(FoundGroup)
                        /\ Indices(FoundGroup) \cup {f.index} = 0..(f.total - 1)
       IN  /\ asm'.emitted # asm.emitted <=> completes
           /\ completes
                => /\ Len(asm'.emitted) = Len(asm.emitted) + 1
                   /\ SubSeq(asm'.emitted, 1, Len(asm.emitted)) = asm.emitted
                   /\ LET e == asm'.emitted[Len(asm'.emitted)]
                      IN  /\ e.key = asm'.last.key
                          /\ IsConcatenation(e.payload,
                                             FoundGroup.got
                                               \cup {[index |-> f.index, payload |-> f.payload]},
                                             f.total)
                          /\ f.total = 1 => e.payload = f.payload]_vars

\* The three fragments of a record arrived with index 0 last; the payload
\* emitted is the six bytes in index order.
C35_Witness ==
    /\ asm.last.what = "emitted"
    /\ asm.last.fragment = Fragment(3, 0, FragmentPayload(0))
    /\ asm.emitted # <<>>
    /\ asm.emitted[Len(asm.emitted)].payload = <<1, 2, 3, 4, 5, 6>>

-----------------------------------------------------------------------------
(* C36: the colon-separated, the hyphen-separated and the unseparated
   spelling of an address, in any case, normalize to the lowercase
   colon-separated spelling; normalizing the result again gives the same
   string; and a string of another length than these spellings have, or with
   a character that is neither a hex digit nor a separator, the empty string
   included, fails with InvalidMacError. *)
C36_NormalizeCanonicalIdempotent ==
    /\ norm.applied >= 1
         => /\ \A a \in Addresses, f \in Forms, c \in Casings :
                  norm.input = Spell(a, f, c)
                     => (norm.err = "ok" /\ norm.result = Spell(a, ":", "lower"))
            /\ (\/ Len(norm.input) \notin {12, 17}
                \/ \E i \in DOMAIN norm.input :
                      norm.input[i] \notin HexDigits \cup {"A", "B", "C", "D", "E", "F", ":", "-"})
                 => (norm.err = "InvalidMacError" /\ norm.applied = 1)
    /\ norm.applied = 2 => (norm.err = "ok" /\ norm.again = norm.result)

\* A hyphen-separated spelling in capitals was normalized twice.
C36_Witness ==
    /\ norm.applied = 2
    /\ norm.input = Spell(<<"d", "8", "1", "3", "2", "a", "2", "5", "2", "f", "a", "c">>, "-", "upper")
    /\ norm.result = <<"d", "8", ":", "1", "3", ":", "2", "a", ":", "2", "5", ":", "2", "f", ":", "a", "c">>
    /\ norm.again = norm.result

====
